---- MODULE Spec2Model ----
(***************************************************************************)
(* Patch application engine of silent-code (src/fs/fs.go).                 *)
(*                                                                         *)
(* A string is a tuple of one-character strings; a text (the content of a  *)
(* file, or the raw answer of the model) is the tuple of its lines, i.e.   *)
(* strings.Split(content, "\n").  No character of the model is a newline,  *)
(* so Split and Join are inverse of each other except on the empty tuple   *)
(* (see JoinSplit).                                                        *)
(***************************************************************************)
EXTENDS Integers, Sequences, FiniteSets, TLC

VARIABLES
    file,        \* content of the target file, as its lines
    backup,      \* the sibling <path>.backup: [exists, content]
    pc,          \* position of the apply request in ApplyDiffToFile
    req,         \* raw text of the request in progress (diffContent)
    route,       \* "diff" | "replace" | "manual" | "none"
    pending,     \* content computed before the confirmation (replace, manual)
    changes,     \* the -/+ pairs of the manual path
    shown,       \* a preview was printed in this request
    answer,      \* <<>> or <<[typed, confirm]>>: the line typed, what ConfirmAction returned
    backedUp,    \* BackupFile returned nil in this request
    err,         \* the error ApplyDiffToFile returns (kind "nil": none)
    pre,         \* content of the target when the request was received
    preBackup,   \* the backup when the request was received
    tWrites,     \* writes of the target attempted in this request
    bWrites,     \* writes of the backup attempted in this request
    tries,       \* calls of ApplyDiff / WriteFile(new content) in this request
    nreq,        \* number of requests received so far
    hLines,      \* line buffer given to applyHunk / ApplyDiff (hunk-level runs)
    hPatch,      \* hunks given to applyHunk / ApplyDiff (hunk-level runs)
    hOut,        \* <<>> or <<result>> of the hunk-level run
    hOp,         \* "none" | "applyHunk" | "ApplyDiff": what produced hOut
    hmSessions,  \* HistoryManager.Sessions: session id -> <<>> or <<conversation>>
    hmFiles,     \* the files session_<id>.json: session id -> [exists, data]
    hmWritten,   \* session id -> <<>> or <<the conversation last written to its file>>
    hmPrev,      \* hmSessions before the last call of the manager
    hmOp,        \* the last call of the manager: [name, id, err]
    rmActive,    \* ReasoningManager.ActiveReasoning: session id -> <<>> or <<reasoning>>
    rmOp,        \* the last call of the reasoning manager: [name, id, err]
    rmUpdates,   \* number of UpdateStepResult calls so far
    sPc,         \* position of talkToOllamaStream
    sLines,      \* lines of the response body scanned so far
    firstToken,  \* the local firstToken of talkToOllamaStream
    stopSent,    \* the send on stopTyping has been executed
    tokenShown,  \* a token of the response has been printed
    stopChan,    \* number of values in the buffer of stopChan
    iPc,         \* position of the goroutine of showTypingIndicator
    iFrame,      \* its loop variable i
    lateFrame    \* a frame was printed after the stop and the first token

vars == <<file, backup, pc, req, route, pending, changes, shown, answer,
          backedUp, err, pre, preBackup, tWrites, bWrites, tries, nreq,
          hLines, hPatch, hOut, hOp,
          hmSessions, hmFiles, hmWritten, hmPrev, hmOp, rmActive, rmOp, rmUpdates,
          sPc, sLines, firstToken, stopSent, tokenShown, stopChan, iPc, iFrame,
          lateFrame>>

wfVars == <<file, backup, pc, req, route, pending, changes, shown, answer,
            backedUp, err, pre, preBackup, tWrites, bWrites, tries, nreq>>

hVars == <<hLines, hPatch, hOut, hOp>>

hmVars == <<hmSessions, hmFiles, hmWritten, hmPrev, hmOp>>

rmVars == <<rmActive, rmOp, rmUpdates>>

sVars == <<sPc, sLines, firstToken, stopSent, tokenShown, stopChan, iPc, iFrame,
           lateFrame>>

\* The session ids of the history manager and of the reasoning manager
SessionIDs == {"s1", "s2"}

NoCall == [name |-> "none", id |-> "none", err |-> FALSE]

\* NewHistoryManager(historyDir), with no session file in the directory
HmIdle ==
    /\ hmSessions = [id \in SessionIDs |-> <<>>]
    /\ hmFiles = [id \in SessionIDs |-> [exists |-> FALSE, data |-> <<>>]]
    /\ hmWritten = [id \in SessionIDs |-> <<>>]
    /\ hmPrev = hmSessions
    /\ hmOp = NoCall

\* NewReasoningManager()
RmIdle ==
    /\ rmActive = [id \in SessionIDs |-> <<>>]
    /\ rmOp = NoCall
    /\ rmUpdates = 0

\* No request is being streamed
SIdle ==
    /\ sPc = "returned"
    /\ sLines = 0
    /\ firstToken = TRUE
    /\ stopSent = FALSE
    /\ tokenShown = FALSE
    /\ stopChan = 0
    /\ iPc = "done"
    /\ iFrame = 0
    /\ lateFrame = FALSE

----------------------------------------------------------------------------
(* Go's strings and strconv packages, as fs.go uses them *)

MinOf(S) == CHOOSE x \in S : \A y \in S : x <= y

MaxOf(S) == CHOOSE x \in S : \A y \in S : x >= y

HasPrefix(s, p) == Len(s) >= Len(p) /\ SubSeq(s, 1, Len(p)) = p

HasSuffix(s, p) == Len(s) >= Len(p) /\ SubSeq(s, Len(s) - Len(p) + 1, Len(s)) = p

Drop(s, n) == SubSeq(s, n + 1, Len(s))

TrimPrefix(s, p) == IF HasPrefix(s, p) THEN Drop(s, Len(p)) ELSE s

TrimSuffix(s, p) == IF HasSuffix(s, p) THEN SubSeq(s, 1, Len(s) - Len(p)) ELSE s

Contains(s, p) == \E i \in 1..(Len(s) - Len(p) + 1) : SubSeq(s, i, i + Len(p) - 1) = p

IsSpace(c) == c \in {" ", "\t"}

TrimSpace(s) ==
    LET keep == {i \in 1..Len(s) : ~IsSpace(s[i])}
    IN  IF keep = {} THEN <<>> ELSE SubSeq(s, MinOf(keep), MaxOf(keep))

RECURSIVE Split(_, _)
Split(s, sep) ==
    LET at == {i \in 1..Len(s) : s[i] = sep}
    IN  IF at = {} THEN <<s>>
        ELSE <<SubSeq(s, 1, MinOf(at) - 1)>> \o Split(Drop(s, MinOf(at)), sep)

Upper == <<"A", "B", "C", "D", "E", "F", "G", "H", "I", "J", "K", "L", "M",
           "N", "O", "P", "Q", "R", "S", "T", "U", "V", "W", "X", "Y", "Z">>

Lower == <<"a", "b", "c", "d", "e", "f", "g", "h", "i", "j", "k", "l", "m",
           "n", "o", "p", "q", "r", "s", "t", "u", "v", "w", "x", "y", "z">>

ToLowerChar(c) ==
    IF \E i \in 1..Len(Upper) : Upper[i] = c
    THEN Lower[CHOOSE i \in 1..Len(Upper) : Upper[i] = c]
    ELSE c

ToLower(s) == [i \in 1..Len(s) |-> ToLowerChar(s[i])]

Digits == <<"0", "1", "2", "3", "4", "5", "6", "7", "8", "9">>

IsDigit(c) == \E i \in 1..Len(Digits) : Digits[i] = c

DigitVal(c) == (CHOOSE i \in 1..Len(Digits) : Digits[i] = c) - 1

RECURSIVE DecimalVal(_)
DecimalVal(s) ==
    IF s = <<>> THEN 0
    ELSE 10 * DecimalVal(SubSeq(s, 1, Len(s) - 1)) + DigitVal(s[Len(s)])

\* strconv.Atoi: an optional sign, then one or more decimal digits
Atoi(s) ==
    LET signed == s # <<>> /\ s[1] \in {"+", "-"}
        body   == IF signed THEN Drop(s, 1) ELSE s
    IN  IF body = <<>> \/ \E i \in 1..Len(body) : ~IsDigit(body[i])
        THEN [ok |-> FALSE, val |-> 0]
        ELSE [ok |-> TRUE,
              val |-> IF signed /\ s[1] = "-" THEN 0 - DecimalVal(body)
                      ELSE DecimalVal(body)]

----------------------------------------------------------------------------
(* Diff parsing: ParseDiff, parseHunkHeader, parseRange *)

Context == "Context"

Addition == "Addition"

Deletion == "Deletion"

MkHunk(os, oc, ns, nc, ls) ==
    [OldStart |-> os, OldCount |-> oc, NewStart |-> ns, NewCount |-> nc, Lines |-> ls]

MkLine(t, c, n) == [Type |-> t, Content |-> c, Number |-> n]

\* Mutant of parseRange: the sign is left in place
parseRangeKeepsSign(rangeStr) ==
    LET parts == Split(rangeStr, ",")
        start == Atoi(parts[1])
        count == Atoi(parts[2])
    IN  IF Len(parts) = 1
        THEN IF start.ok THEN [ok |-> TRUE, Start |-> start.val, Count |-> 1]
             ELSE [ok |-> FALSE, Start |-> 0, Count |-> 0]
        ELSE IF ~start.ok \/ ~count.ok THEN [ok |-> FALSE, Start |-> 0, Count |-> 0]
             ELSE [ok |-> TRUE, Start |-> start.val, Count |-> count.val]

parseRange(rangeStr) ==
    LET r     == IF HasPrefix(rangeStr, <<"+">>) \/ HasPrefix(rangeStr, <<"-">>)
                 THEN Drop(rangeStr, 1) ELSE rangeStr
        parts == Split(r, ",")
        start == Atoi(parts[1])
        count == Atoi(parts[2])
    IN  IF Len(parts) = 1
        THEN IF start.ok THEN [ok |-> TRUE, Start |-> start.val, Count |-> 1]
             ELSE [ok |-> FALSE, Start |-> 0, Count |-> 0]
        ELSE IF ~start.ok \/ ~count.ok THEN [ok |-> FALSE, Start |-> 0, Count |-> 0]
             ELSE [ok |-> TRUE, Start |-> start.val, Count |-> count.val]

\* Mutant of parseHunkHeader: only the placeholder "line" is looked for
parseHunkHeaderLineOnly(header) ==
    LET h     == TrimSpace(TrimSuffix(TrimPrefix(TrimSpace(header), <<"@", "@">>), <<"@", "@">>))
        parts == Split(h, " ")
        old   == parseRange(parts[1])
        new   == parseRange(parts[2])
    IN  IF Contains(h, <<"l", "i", "n", "e">>)
        THEN [ok |-> TRUE, hunk |-> MkHunk(1, 1, 1, 1, <<>>)]
        ELSE IF Len(parts) # 2 \/ ~old.ok \/ ~new.ok
        THEN [ok |-> FALSE, hunk |-> MkHunk(0, 0, 0, 0, <<>>)]
        ELSE [ok |-> TRUE, hunk |-> MkHunk(old.Start, old.Count, new.Start, new.Count, <<>>)]

parseHunkHeader(header) ==
    LET h     == TrimSpace(TrimSuffix(TrimPrefix(TrimSpace(header), <<"@", "@">>), <<"@", "@">>))
        parts == Split(h, " ")
        old   == parseRange(parts[1])
        new   == parseRange(parts[2])
    IN  IF Contains(h, <<"l", "i", "n", "e">>) \/ Contains(h, <<"c", "o", "u", "n", "t">>)
        THEN [ok |-> TRUE, hunk |-> MkHunk(1, 1, 1, 1, <<>>)]
        ELSE IF Len(parts) # 2 \/ ~old.ok \/ ~new.ok
        THEN [ok |-> FALSE, hunk |-> MkHunk(0, 0, 0, 0, <<>>)]
        ELSE [ok |-> TRUE, hunk |-> MkHunk(old.Start, old.Count, new.Start, new.Count, <<>>)]

\* Mutant of ParseFrom: a header that fails is reported by its 0-based index
RECURSIVE ParseFromZeroBased(_, _, _, _, _)
ParseFromZeroBased(lines, i, path, hunks, cur) ==
    IF i > Len(lines)
    THEN [ok |-> TRUE, line |-> 0, FilePath |-> path, Hunks |-> hunks \o cur]
    ELSE LET line == lines[i]
             hdr  == parseHunkHeader(line)
             type == IF HasPrefix(line, <<"+">>) THEN Addition
                     ELSE IF HasPrefix(line, <<"-">>) THEN Deletion
                     ELSE Context
         IN  IF TrimSpace(line) = <<>>
             THEN ParseFromZeroBased(lines, i + 1, path, hunks, cur)
             ELSE IF HasPrefix(line, <<"-", "-", "-", " ">>)
             THEN ParseFromZeroBased(lines, i + 1, TrimSpace(Drop(line, 4)), hunks, cur)
             ELSE IF HasPrefix(line, <<"+", "+", "+", " ">>)
             THEN ParseFromZeroBased(lines, i + 1,
                            IF TrimSpace(Drop(line, 4)) # <<>>
                            THEN TrimSpace(Drop(line, 4)) ELSE path,
                            hunks, cur)
             ELSE IF HasPrefix(line, <<"@", "@">>)
             THEN IF hdr.ok
                  THEN ParseFromZeroBased(lines, i + 1, path, hunks \o cur, <<hdr.hunk>>)
                  ELSE [ok |-> FALSE, line |-> i - 1, FilePath |-> <<>>, Hunks |-> <<>>]
             ELSE IF cur = <<>>
             THEN ParseFromZeroBased(lines, i + 1, path, hunks, cur)
             ELSE ParseFromZeroBased(lines, i + 1, path, hunks,
                            <<[cur[1] EXCEPT !.Lines =
                                  Append(@, MkLine(type, Drop(line, 1), i))]>>)

\* One iteration of the loop of ParseDiff over line i; cur is <<>> or <<currentHunk>>
RECURSIVE ParseFrom(_, _, _, _, _)
ParseFrom(lines, i, path, hunks, cur) ==
    IF i > Len(lines)
    THEN [ok |-> TRUE, line |-> 0, FilePath |-> path, Hunks |-> hunks \o cur]
    ELSE LET line == lines[i]
             hdr  == parseHunkHeader(line)
             type == IF HasPrefix(line, <<"+">>) THEN Addition
                     ELSE IF HasPrefix(line, <<"-">>) THEN Deletion
                     ELSE Context
         IN  IF TrimSpace(line) = <<>>
             THEN ParseFrom(lines, i + 1, path, hunks, cur)
             ELSE IF HasPrefix(line, <<"-", "-", "-", " ">>)
             THEN ParseFrom(lines, i + 1, TrimSpace(Drop(line, 4)), hunks, cur)
             ELSE IF HasPrefix(line, <<"+", "+", "+", " ">>)
             THEN ParseFrom(lines, i + 1,
                            IF TrimSpace(Drop(line, 4)) # <<>>
                            THEN TrimSpace(Drop(line, 4)) ELSE path,
                            hunks, cur)
             ELSE IF HasPrefix(line, <<"@", "@">>)
             THEN IF hdr.ok
                  THEN ParseFrom(lines, i + 1, path, hunks \o cur, <<hdr.hunk>>)
                  ELSE [ok |-> FALSE, line |-> i, FilePath |-> <<>>, Hunks |-> <<>>]
             ELSE IF cur = <<>>
             THEN ParseFrom(lines, i + 1, path, hunks, cur)
             ELSE ParseFrom(lines, i + 1, path, hunks,
                            <<[cur[1] EXCEPT !.Lines =
                                  Append(@, MkLine(type, Drop(line, 1), i))]>>)

\* Mutant of ParseDiff: the hunk still open at the end of the text is not added
ParseDiffDropsLast(diffContent) ==
    LET r == ParseFrom(diffContent, 1, <<>>, <<>>, <<>>)
    IN  IF r.ok /\ r.Hunks # <<>>
        THEN [r EXCEPT !.Hunks = SubSeq(@, 1, Len(@) - 1)]
        ELSE r

ParseDiff(diffContent) == ParseFrom(diffContent, 1, <<>>, <<>>, <<>>)

----------------------------------------------------------------------------
(* Hunk application: applyHunk, ApplyDiff *)

\* strings.Split(strings.Join(lines, "\n"), "\n"): the content written for a buffer
JoinSplit(lines) == IF lines = <<>> THEN << <<>> >> ELSE lines

\* Mutant of HunkWalk: a context line emits the text of the hunk, not the live line
RECURSIVE HunkWalkHunkText(_, _, _, _, _)
HunkWalkHunkText(lines, hl, i, oldStart, newLines) ==
    IF i > Len(hl) THEN newLines
    ELSE IF hl[i].Type = Context
    THEN IF oldStart < Len(lines)
         THEN HunkWalkHunkText(lines, hl, i + 1, oldStart + 1, Append(newLines, hl[i].Content))
         ELSE HunkWalkHunkText(lines, hl, i + 1, oldStart, newLines)
    ELSE IF hl[i].Type = Addition
    THEN HunkWalkHunkText(lines, hl, i + 1, oldStart, Append(newLines, hl[i].Content))
    ELSE HunkWalkHunkText(lines, hl, i + 1, oldStart + 1, newLines)

\* The loop of applyHunk over hunk.Lines from index i, cursor oldStart (0-based)
RECURSIVE HunkWalk(_, _, _, _, _)
HunkWalk(lines, hl, i, oldStart, newLines) ==
    IF i > Len(hl) THEN newLines
    ELSE IF hl[i].Type = Context
    THEN IF oldStart < Len(lines)
         THEN HunkWalk(lines, hl, i + 1, oldStart + 1, Append(newLines, lines[oldStart + 1]))
         ELSE HunkWalk(lines, hl, i + 1, oldStart, newLines)
    ELSE IF hl[i].Type = Addition
    THEN HunkWalk(lines, hl, i + 1, oldStart, Append(newLines, hl[i].Content))
    ELSE HunkWalk(lines, hl, i + 1, oldStart + 1, newLines)

\* Mutant of applyHunk: the tail is taken one line too far
applyHunkTailOffByOne(lines, hunk) ==
    LET oldStart == hunk.OldStart - 1
        oldEnd   == IF oldStart + hunk.OldCount > Len(lines) THEN Len(lines)
                    ELSE oldStart + hunk.OldCount
        walked   == HunkWalk(lines, hunk.Lines, 1, oldStart, SubSeq(lines, 1, oldStart))
    IN  IF oldStart < 0 \/ oldStart >= Len(lines)
        THEN [ok |-> FALSE, panic |-> FALSE, start |-> hunk.OldStart, count |-> Len(lines),
              lines |-> <<>>]
        ELSE IF oldEnd < 0
        THEN [ok |-> FALSE, panic |-> TRUE, start |-> 0, count |-> 0, lines |-> <<>>]
        ELSE [ok |-> TRUE, panic |-> FALSE, start |-> 0, count |-> 0,
              lines |-> IF oldEnd < Len(lines)
                        THEN walked \o SubSeq(lines, oldEnd + 2, Len(lines))
                        ELSE walked]

\* lines[oldEnd:] with oldEnd < 0 is a run-time panic (slice bounds out of range):
\* neither lines nor an error come back
applyHunk(lines, hunk) ==
    LET oldStart == hunk.OldStart - 1
        oldEnd   == IF oldStart + hunk.OldCount > Len(lines) THEN Len(lines)
                    ELSE oldStart + hunk.OldCount
        walked   == HunkWalk(lines, hunk.Lines, 1, oldStart, SubSeq(lines, 1, oldStart))
    IN  IF oldStart < 0 \/ oldStart >= Len(lines)
        THEN [ok |-> FALSE, panic |-> FALSE, start |-> hunk.OldStart, count |-> Len(lines),
              lines |-> <<>>]
        ELSE IF oldEnd < 0
        THEN [ok |-> FALSE, panic |-> TRUE, start |-> 0, count |-> 0, lines |-> <<>>]
        ELSE [ok |-> TRUE, panic |-> FALSE, start |-> 0, count |-> 0,
              lines |-> IF oldEnd < Len(lines)
                        THEN walked \o SubSeq(lines, oldEnd + 1, Len(lines))
                        ELSE walked]

\* Mutant of ApplyHunksFrom: the loop stops after the hunk it starts with
ApplyHunksOnlyLast(lines, hunks, i) ==
    IF i < 1 THEN [ok |-> TRUE, panic |-> FALSE, start |-> 0, count |-> 0, lines |-> lines]
    ELSE applyHunk(lines, hunks[i])

\* The loop of ApplyDiff, i from len(diff.Hunks) down to 1
RECURSIVE ApplyHunksFrom(_, _, _)
ApplyHunksFrom(lines, hunks, i) ==
    IF i < 1 THEN [ok |-> TRUE, panic |-> FALSE, start |-> 0, count |-> 0, lines |-> lines]
    ELSE LET r == applyHunk(lines, hunks[i])
         IN  IF r.ok THEN ApplyHunksFrom(r.lines, hunks, i - 1) ELSE r

\* Mutant of ApplyHunks: the hunks are applied from the first to the last
RECURSIVE ApplyHunksForward(_, _, _)
ApplyHunksForward(lines, hunks, i) ==
    IF i > Len(hunks) THEN [ok |-> TRUE, panic |-> FALSE, start |-> 0, count |-> 0, lines |-> lines]
    ELSE LET r == applyHunk(lines, hunks[i])
         IN  IF r.ok THEN ApplyHunksForward(r.lines, hunks, i + 1) ELSE r

ApplyHunksFirstToLast(lines, hunks) == ApplyHunksForward(lines, hunks, 1)

ApplyHunks(lines, hunks) == ApplyHunksFrom(lines, hunks, Len(hunks))

----------------------------------------------------------------------------
(* Content classifier: containsUnwantedContent *)

PythonMarkers ==
    << <<"d", "e", "f", " ">>,
       <<"i", "m", "p", "o", "r", "t", " ">>,
       <<"p", "y", "t", "h", "o", "n">>,
       <<"w", "i", "t", "h", " ", "o", "p", "e", "n", "(">> >>

FillerPhrases ==
    << <<"h", "e", "r", "e", "'", "s", " ", "h", "o", "w">>,
       <<"y", "o", "u", " ", "c", "a", "n", " ", "u", "s", "e">>,
       <<"h", "e", "r", "e", " ", "a", "r", "e", " ", "a", " ", "f", "e",
          "w">>,
       <<"y", "o", "u", " ", "c", "o", "u", "l", "d", " ", "g", "e", "n",
          "e", "r", "a", "t", "e">> >>

DiffMarkers ==
    << <<"-", "-", "-">>,
       <<"+", "+", "+">>,
       <<"@", "@">> >>

\* Mutant of containsUnwantedContent: the letter case of the content is kept
containsUnwantedContentCaseKept(content) ==
    LET has(p) == \E i \in 1..Len(content) : Contains(content[i], p)
    IN  \/ \E k \in 1..Len(PythonMarkers) : has(PythonMarkers[k])
        \/ \E k \in 1..Len(FillerPhrases) : has(FillerPhrases[k])
        \/ ~ \E k \in 1..Len(DiffMarkers) : has(DiffMarkers[k])

\* Mutant of containsUnwantedContent: only the hunk marker counts as diff syntax
containsUnwantedContentNeedsHunk(content) ==
    LET has(p) == \E i \in 1..Len(content) : Contains(ToLower(content[i]), p)
    IN  \/ \E k \in 1..Len(PythonMarkers) : has(PythonMarkers[k])
        \/ \E k \in 1..Len(FillerPhrases) : has(FillerPhrases[k])
        \/ ~ has(DiffMarkers[3])

\* None of the markers holds a newline, so a marker is in the content exactly
\* when it is in one of its lines.
containsUnwantedContent(content) ==
    LET has(p) == \E i \in 1..Len(content) : Contains(ToLower(content[i]), p)
    IN  \/ \E k \in 1..Len(PythonMarkers) : has(PythonMarkers[k])
        \/ \E k \in 1..Len(FillerPhrases) : has(FillerPhrases[k])
        \/ ~ \E k \in 1..Len(DiffMarkers) : has(DiffMarkers[k])

----------------------------------------------------------------------------
(* Fallback extractor: ExtractCodeBlocks, CleanGoCode,                     *)
(* extractCompleteFileFromResponse.  In every text of the model a backtick *)
(* occurs only in a run of exactly three at the start of a line (a fence   *)
(* line); the regular expressions are modelled on such texts.              *)

ExplanatoryPhrases ==
    << <<"I", "n", " ", "t", "h", "i", "s", " ", "e", "x", "a", "m", "p",
          "l", "e">>,
       <<"I", " ", "h", "o", "p", "e", " ", "t", "h", "i", "s", " ", "h",
          "e", "l", "p", "s">>,
       <<"T", "h", "i", "s", " ", "e", "x", "a", "m", "p", "l", "e">>,
       <<"T", "h", "e", " ", "c", "o", "d", "e", " ", "a", "b", "o", "v",
          "e">>,
       <<"T", "h", "i", "s", " ", "c", "o", "d", "e">>,
       <<"T", "h", "e", " ", "f", "u", "n", "c", "t", "i", "o", "n">>,
       <<"W", "e", "'", "v", "e", " ", "d", "e", "f", "i", "n", "e", "d">>,
       <<"F", "i", "n", "a", "l", "l", "y">>,
       <<"I", "n", " ", "t", "h", "i", "s", " ", "c", "a", "s", "e">> >>

ResponsePrefixes ==
    << <<"H", "e", "r", "e", "'", "s", " ", "t", "h", "e", " ", "G", "o",
          " ", "c", "o", "d", "e", ":">>,
       <<"H", "e", "r", "e", " ", "i", "s", " ", "t", "h", "e", " ", "G",
          "o", " ", "c", "o", "d", "e", ":">>,
       <<"H", "e", "r", "e", "'", "s", " ", "t", "h", "e", " ", "c", "o",
          "m", "p", "l", "e", "t", "e", " ", "G", "o", " ", "f", "i",
          "l", "e", ":">>,
       <<"H", "e", "r", "e", " ", "i", "s", " ", "t", "h", "e", " ", "c",
          "o", "m", "p", "l", "e", "t", "e", " ", "G", "o", " ", "f",
          "i", "l", "e", ":">>,
       <<"T", "h", "e", " ", "G", "o", " ", "c", "o", "d", "e", " ", "i",
          "s", ":">>,
       <<"H", "e", "r", "e", "'", "s", " ", "y", "o", "u", "r", " ", "G",
          "o", " ", "f", "i", "l", "e", ":">>,
       <<"H", "e", "r", "e", " ", "i", "s", " ", "y", "o", "u", "r", " ",
          "G", "o", " ", "f", "i", "l", "e", ":">>,
       <<"S", "u", "r", "e", "!", " ", "H", "e", "r", "e", " ", "i", "s",
          " ", "t", "h", "e", " ", "c", "o", "m", "p", "l", "e", "t",
          "e", ",", " ", "r", "u", "n", "n", "a", "b", "l", "e", " ",
          "G", "o", " ", "f", "i", "l", "e", " ", "y", "o", "u", " ",
          "r", "e", "q", "u", "e", "s", "t", "e", "d", ":">>,
       <<"H", "e", "r", "e", " ", "i", "s", " ", "t", "h", "e", " ", "c",
          "o", "m", "p", "l", "e", "t", "e", ",", " ", "r", "u", "n",
          "n", "a", "b", "l", "e", " ", "G", "o", " ", "f", "i", "l",
          "e", " ", "y", "o", "u", " ", "r", "e", "q", "u", "e", "s",
          "t", "e", "d", ":">> >>

GoKeywords ==
    << <<"p", "a", "c", "k", "a", "g", "e", " ">>,
       <<"i", "m", "p", "o", "r", "t", " ">>,
       <<"f", "u", "n", "c", " ">>,
       <<"t", "y", "p", "e", " ">>,
       <<"v", "a", "r", " ">>,
       <<"c", "o", "n", "s", "t", " ">> >>

\* BQ stands for the backquote character, which a TLA+ string cannot hold
BQ == "BQ"

Fence == <<BQ, BQ, BQ>>

PackageKw == <<"p", "a", "c", "k", "a", "g", "e", " ">>

TrimLeft(s) ==
    LET keep == {i \in 1..Len(s) : ~IsSpace(s[i])}
    IN  IF keep = {} THEN <<>> ELSE Drop(s, MinOf(keep) - 1)

TrimRight(s) ==
    LET keep == {i \in 1..Len(s) : ~IsSpace(s[i])}
    IN  IF keep = {} THEN <<>> ELSE SubSeq(s, 1, MaxOf(keep))

\* strings.TrimSpace of a string that spans several lines
TrimText(ls) ==
    LET keep == {i \in 1..Len(ls) : TrimSpace(ls[i]) # <<>>}
        a    == MinOf(keep)
        b    == MaxOf(keep)
    IN  IF keep = {} THEN << <<>> >>
        ELSE [i \in 1..(b - a + 1) |->
                 IF a = b THEN TrimSpace(ls[a])
                 ELSE IF i = 1 THEN TrimLeft(ls[a])
                 ELSE IF i = b - a + 1 THEN TrimRight(ls[b])
                 ELSE ls[a + i - 1]]

\* The opening of the code-block pattern, fence (go|golang)? \s* \n, matches at
\* the start of this line (a newline follows it)
OpensBlock(l) ==
    /\ HasPrefix(l, Fence)
    /\ \/ TrimSpace(Drop(l, 3)) = <<>>
       \/ TrimSpace(TrimPrefix(Drop(l, 3), <<"g", "o">>)) = <<>>
       \/ TrimSpace(TrimPrefix(Drop(l, 3), <<"g", "o", "l", "a", "n", "g">>)) = <<>>

\* FindAllStringSubmatch of codeBlockRegex from the line numbered from on
RECURSIVE FencedBlocks(_, _)
FencedBlocks(lines, from) ==
    LET closers(i) == {j \in (i + 1)..Len(lines) : HasPrefix(lines[j], Fence)}
        opens      == {i \in from..(Len(lines) - 1) :
                          OpensBlock(lines[i]) /\ closers(i) # {}}
        i          == MinOf(opens)
        j          == MinOf(closers(i))
    IN  IF opens = {} THEN <<>>
        ELSE <<TrimText(SubSeq(lines, i + 1, j - 1))>> \o FencedBlocks(lines, j + 1)

ExtractCodeBlocks(content) ==
    IF FencedBlocks(content, 1) # <<>> THEN FencedBlocks(content, 1)
    ELSE IF \E i \in 1..Len(content) : Contains(content[i], PackageKw)
    THEN <<content>>
    ELSE <<>>

\* ReplaceAllString of fence (go|golang)? \s* \n? by "": the fence goes with the
\* white space after it, blank lines and the indentation of the next line included
RECURSIVE StripFences(_)
StripFences(ls) ==
    LET fs   == {i \in 1..Len(ls) : HasPrefix(ls[i], Fence)}
        i    == MinOf(fs)
        rest == TrimLeft(TrimPrefix(Drop(ls[i], 3), <<"g", "o">>))
        nb   == {k \in (i + 1)..Len(ls) : TrimSpace(ls[k]) # <<>>}
    IN  IF fs = {} THEN ls
        ELSE IF rest # <<>> THEN StripFences([ls EXCEPT ![i] = rest])
        ELSE IF nb = {} THEN SubSeq(ls, 1, i - 1) \o << <<>> >>
        ELSE StripFences(SubSeq(ls, 1, i - 1) \o <<TrimLeft(ls[MinOf(nb)])>>
                         \o SubSeq(ls, MinOf(nb) + 1, Len(ls)))

StripPrefix(ls) ==
    LET hit == {k \in 1..Len(ResponsePrefixes) : HasPrefix(ls[1], ResponsePrefixes[k])}
    IN  IF hit = {} THEN ls
        ELSE TrimText([ls EXCEPT ![1] = Drop(@, Len(ResponsePrefixes[MinOf(hit)]))])

IsExplanatory(line) ==
    \E k \in 1..Len(ExplanatoryPhrases) : HasPrefix(line, ExplanatoryPhrases[k])

\* The loop that collects from the package declaration to the first explanatory
\* sentence (the same loop in extractCompleteFileFromResponse and in CleanGoCode)
RECURSIVE PackageScan(_, _, _, _)
PackageScan(ls, i, inCode, out) ==
    IF i > Len(ls) THEN [found |-> inCode, lines |-> out]
    ELSE LET line  == TrimSpace(ls[i])
             nowIn == inCode \/ HasPrefix(line, PackageKw)
         IN  IF nowIn /\ IsExplanatory(line) THEN [found |-> TRUE, lines |-> out]
             ELSE PackageScan(ls, i + 1, nowIn, IF nowIn THEN Append(out, line) ELSE out)

\* The second loop of CleanGoCode (no package declaration found)
RECURSIVE KeywordScan(_, _, _)
KeywordScan(ls, i, out) ==
    IF i > Len(ls) THEN out
    ELSE LET line == TrimSpace(ls[i])
         IN  IF line = <<>> THEN KeywordScan(ls, i + 1, out)
             ELSE IF (\E k \in 1..Len(GoKeywords) : HasPrefix(line, GoKeywords[k]))
                     \/ out # <<>>
             THEN KeywordScan(ls, i + 1, Append(out, line))
             ELSE KeywordScan(ls, i + 1, out)

CleanGoCode(code) ==
    LET ls   == StripPrefix(StripFences(code))
        scan == PackageScan(ls, 1, FALSE, <<>>)
    IN  TrimText(IF scan.found THEN scan.lines ELSE KeywordScan(ls, 1, <<>>))

extractCompleteFileFromResponse(content) ==
    LET blocks == ExtractCodeBlocks(content)
        clean  == CleanGoCode(blocks[1])
        scan   == PackageScan(content, 1, FALSE, <<>>)
    IN  IF blocks # <<>> /\ HasPrefix(clean[1], PackageKw)
        THEN [ok |-> TRUE, content |-> clean]
        ELSE IF scan.found /\ scan.lines # <<>>
        THEN [ok |-> TRUE, content |-> scan.lines]
        ELSE [ok |-> FALSE, content |-> << <<>> >>]

----------------------------------------------------------------------------
(* Fallback extractor, third attempt: the -/+ pairs of applyChangesManually *)

IsMinusLine(l) == HasPrefix(l, <<"-">>) /\ ~HasPrefix(l, <<"-", "-", "-">>)

IsPlusLine(l) == HasPrefix(l, <<"+">>) /\ ~HasPrefix(l, <<"+", "+", "+">>)

\* The inner loop: it scans diffLines from its first line
PartnerOf(diffLines) ==
    LET plus == {k \in 1..Len(diffLines) : IsPlusLine(TrimSpace(diffLines[k]))}
    IN  IF plus = {} THEN <<>> ELSE <<Drop(TrimSpace(diffLines[MinOf(plus)]), 1)>>

RECURSIVE PairsFrom(_, _)
PairsFrom(diffLines, i) ==
    IF i > Len(diffLines) THEN <<>>
    ELSE LET line == TrimSpace(diffLines[i])
         IN  IF IsMinusLine(line) /\ PartnerOf(diffLines) # <<>>
             THEN <<[oldLine |-> Drop(line, 1), newLine |-> PartnerOf(diffLines)[1]]>>
                  \o PairsFrom(diffLines, i + 1)
             ELSE PairsFrom(diffLines, i + 1)

ExtractChanges(diffContent) == PairsFrom(diffContent, 1)

\* Mutant of Substitute: a change replaces every live line that matches it
SubstituteEveryMatch(lines, chs) ==
    [i \in 1..Len(lines) |->
        IF \E k \in 1..Len(chs) : TrimSpace(lines[i]) = TrimSpace(chs[k].oldLine)
        THEN chs[CHOOSE k \in 1..Len(chs) :
                    TrimSpace(lines[i]) = TrimSpace(chs[k].oldLine)].newLine
        ELSE lines[i]]

\* "Apply changes": each change replaces the first live line equal to it once trimmed
RECURSIVE SubstituteFrom(_, _, _)
SubstituteFrom(lines, chs, k) ==
    IF k > Len(chs) THEN lines
    ELSE LET hit == {i \in 1..Len(lines) : TrimSpace(lines[i]) = TrimSpace(chs[k].oldLine)}
         IN  SubstituteFrom(IF hit = {} THEN lines
                            ELSE [lines EXCEPT ![MinOf(hit)] = chs[k].newLine],
                            chs, k + 1)

Substitute(lines, chs) == SubstituteFrom(lines, chs, 1)

----------------------------------------------------------------------------
(* Apply workflow: ApplyDiffToFile and applyChangesManually, with BackupFile, *)
(* RestoreBackup, ConfirmAction, ReadFile and WriteFile                       *)

MaxRequests == 2

\* a well-formed diff of one hunk: line 2, b becomes x
DiffOneHunk ==
    << <<"-", "-", "-", " ", "f">>,
       <<"+", "+", "+", " ", "f">>,
       <<"@", "@", " ", "-", "2", ",", "1", " ", "+", "2", ",", "1", " ",
          "@", "@">>,
       <<"-", "b">>,
       <<"+", "x">> >>

\* two hunks in ascending order: x after a, c deleted
DiffTwoHunks ==
    << <<"-", "-", "-", " ", "f">>,
       <<"+", "+", "+", " ", "f">>,
       <<"@", "@", " ", "-", "1", ",", "1", " ", "+", "1", ",", "2", " ",
          "@", "@">>,
       <<" ", "a">>,
       <<"+", "x">>,
       <<>>,
       <<"@", "@", " ", "-", "3", ",", "1", " ", "+", "3", ",", "0", " ",
          "@", "@">>,
       <<"-", "c">> >>

\* the first hunk starts at line 9; the second one adds two lines
DiffFirstHunkOut ==
    << <<"@", "@", " ", "-", "9", ",", "1", " ", "+", "9", ",", "1", " ",
          "@", "@">>,
       <<"-", "z">>,
       <<"+", "y">>,
       <<"@", "@", " ", "-", "1", ",", "1", " ", "+", "1", ",", "3", " ",
          "@", "@">>,
       <<" ", "a">>,
       <<"+", "x">>,
       <<"+", "y">> >>

\* the last hunk starts at line 9
DiffLastHunkOut ==
    << <<"@", "@", " ", "-", "1", ",", "1", " ", "+", "1", ",", "1", " ",
          "@", "@">>,
       <<"-", "a">>,
       <<"+", "x">>,
       <<"@", "@", " ", "-", "9", ",", "1", " ", "+", "9", ",", "1", " ",
          "@", "@">>,
       <<"-", "z">>,
       <<"+", "y">> >>

\* a placeholder header: the degenerate hunk 1,1,1,1
DiffPlaceholder ==
    << <<"-", "-", "-", " ", "f">>,
       <<"@", "@", " ", "-", "l", "i", "n", "e", ",", "c", "o", "u", "n",
          "t", " ", "+", "l", "i", "n", "e", ",", "c", "o", "u", "n",
          "t", " ", "@", "@">>,
       <<"-", "a">>,
       <<"+", "x">> >>

\* a header that does not parse: the fallback pairs -a with +x
DiffBadHeader ==
    << <<"-", "-", "-", " ", "f">>,
       <<"@", "@", " ", "-", "x", ",", "1", " ", "+", "1", ",", "1", " ",
          "@", "@">>,
       <<"-", "a">>,
       <<"+", "x">> >>

\* another language, with a -/+ pair that matches the live line b
PythonWithPairs ==
    << <<"d", "e", "f", " ", "f", "(", ")", ":">>,
       <<"-", "b">>,
       <<"+", "y">> >>

\* prose without diff markers, package declaration or -/+ lines
NothingUsable ==
    << <<"h", "e", "l", "l", "o">>,
       <<"n", "o", " ", "c", "h", "a", "n", "g", "e">> >>

\* a -/+ pair whose old text is no live line
PairNoMatch ==
    << <<"-", "q">>,
       <<"+", "y">> >>

\* a fenced complete file followed by an explanatory sentence
FencedFile ==
    << <<"S", "u", "r", "e">>,
       <<BQ, BQ, BQ, "g", "o">>,
       <<"p", "a", "c", "k", "a", "g", "e", " ", "m", "a", "i", "n">>,
       <<"f", "u", "n", "c", " ", "m", "a", "i", "n", "(", ")", " ", "{",
          "}">>,
       <<BQ, BQ, BQ>>,
       <<"I", "n", " ", "t", "h", "i", "s", " ", "e", "x", "a", "m", "p",
          "l", "e", " ", "m", "a", "i", "n", " ", "i", "s", " ", "e",
          "m", "p", "t", "y">> >>

\* a complete file without fence, cut at the explanatory sentence
BareFile ==
    << <<"p", "a", "c", "k", "a", "g", "e", " ", "m", "a", "i", "n">>,
       <<"v", "a", "r", " ", "x", " ", "i", "n", "t">>,
       <<"T", "h", "i", "s", " ", "c", "o", "d", "e", " ", "d", "e", "c",
          "l", "a", "r", "e", "s", " ", "x">> >>

\* a well-formed diff whose added line holds a marker of another language
DiffWithImport ==
    << <<"@", "@", " ", "-", "1", ",", "1", " ", "+", "1", ",", "2", " ", "@", "@">>,
       <<" ", "a">>,
       <<"+", "i", "m", "p", "o", "r", "t", " ", "x">> >>

\* a header with a negative count: oldEnd is below zero
DiffNegativeCount ==
    << <<"@", "@", " ", "-", "1", ",", "-", "1", " ", "+", "1", ",", "1", " ", "@", "@">>,
       <<"+", "x">> >>

Requests ==
    {DiffOneHunk, DiffTwoHunks, DiffFirstHunkOut, DiffLastHunkOut, DiffPlaceholder, DiffBadHeader,
     PythonWithPairs, NothingUsable, PairNoMatch, FencedFile, BareFile, DiffWithImport,
     DiffNegativeCount}

\* Lines the user may type at the prompt
Answers ==
    {<<"y">>,
     <<" ", "Y", "e", "s">>,
     <<"Y", "E", "S", " ">>,
     <<"n">>,
     <<>>,
     <<"y", "e", "a", "h">>}

LineA == <<"a">>

LineB == <<"b">>

LineC == <<"c">>

\* Contents of the target file before the first request
InitFiles == {<<LineA, LineB, LineC>>, <<LineA>>}

ReadOutcomes == {"ok", "fail"}

\* os.WriteFile truncates the file when it opens it: a write fails before the
\* file is opened ("fail", content as it was) or after ("partial")
WriteOutcomes == {"ok", "fail", "partial"}

Truncated(data) == {JoinSplit(SubSeq(data, 1, k)) : k \in 0..(Len(data) - 1)}

\* The contents a file may hold after WriteFile(path, data) ended with outcome w
AfterWrite(old, data, w) ==
    IF w = "ok" THEN {data} ELSE IF w = "fail" THEN {old} ELSE Truncated(data)

NoErr == [kind |-> "nil", cause |-> "none", start |-> 0, count |-> 0, restore |-> "none"]

MkErr(k, c, s, n, r) == [kind |-> k, cause |-> c, start |-> s, count |-> n, restore |-> r]

NoBackup == [exists |-> FALSE, content |-> << <<>> >>]

\* Mutant of ConfirmAction: an empty answer counts as yes
ConfirmActionDefaultYes(input) ==
    LET response == ToLower(TrimSpace(input))
    IN  response = <<>> \/ response = <<"y">> \/ response = <<"y", "e", "s">>

ConfirmAction(input) ==
    LET response == ToLower(TrimSpace(input))
    IN  response = <<"y">> \/ response = <<"y", "e", "s">>

\* The content ApplyDiff writes back, or the error of the hunk that failed
ApplyDiff(lines, hunks) ==
    LET r == ApplyHunks(lines, hunks)
    IN  IF r.ok THEN [r EXCEPT !.lines = JoinSplit(@)] ELSE r

\* What the pure stages of the workflow compute from each request text
Analysis ==
    [text \in Requests |->
        [unwanted  |-> containsUnwantedContent(text),
         parsed    |-> ParseDiff(text),
         extracted |-> extractCompleteFileFromResponse(text),
         changes   |-> ExtractChanges(text)]]

WfReset ==
    /\ answer' = <<>>
    /\ backedUp' = FALSE
    /\ tWrites' = 0
    /\ bWrites' = 0
    /\ tries' = 0
    /\ pre' = file
    /\ preBackup' = backup
    /\ nreq' = nreq + 1

\* ApplyDiffToFile up to the preview: the classifier accepts the text and it parses
ReceiveDiff(text) ==
    /\ pc \in {"idle", "done"}
    /\ nreq < MaxRequests
    /\ ~Analysis[text].unwanted
    /\ Analysis[text].parsed.ok
    /\ WfReset
    /\ req' = text
    /\ route' = "diff"
    /\ pending' = <<>>
    /\ changes' = <<>>
    /\ shown' = TRUE
    /\ err' = NoErr
    /\ pc' = "confirm"
    /\ UNCHANGED <<file, backup>>
    /\ UNCHANGED <<hVars, hmVars, rmVars, sVars>>

\* Mutant of ReceiveFallback: the rejection or the parse error is returned
ReceiveFallbackParseError(text, rd) ==
    /\ pc \in {"idle", "done"}
    /\ nreq < MaxRequests
    /\ Analysis[text].unwanted \/ ~Analysis[text].parsed.ok
    /\ WfReset
    /\ rd = "ok"
    /\ req' = text
    /\ UNCHANGED <<file, backup>>
    /\ UNCHANGED <<hVars, hmVars, rmVars, sVars>>
    /\ route' = "none"
    /\ pending' = <<>>
    /\ changes' = <<>>
    /\ shown' = FALSE
    /\ err' = MkErr(IF Analysis[text].unwanted THEN "classification" ELSE "parse",
                    "none", 0, 0, "none")
    /\ pc' = "done"

\* applyChangesManually up to its preview
ReceiveFallback(text, rd) ==
    /\ pc \in {"idle", "done"}
    /\ nreq < MaxRequests
    /\ Analysis[text].unwanted \/ ~Analysis[text].parsed.ok
    /\ WfReset
    /\ req' = text
    /\ UNCHANGED <<file, backup>>
    /\ UNCHANGED <<hVars, hmVars, rmVars, sVars>>
    /\ IF rd = "fail"
       THEN /\ route' = "none"
            /\ pending' = <<>>
            /\ changes' = <<>>
            /\ shown' = FALSE
            /\ err' = MkErr("read", "read", 0, 0, "none")
            /\ pc' = "done"
       ELSE LET ext == Analysis[text].extracted
            IN  /\ shown' = TRUE
                /\ err' = NoErr
                /\ pc' = "confirm"
                /\ IF ext.ok /\ ext.content # << <<>> >>
                   THEN /\ route' = "replace"
                        /\ pending' = ext.content
                        /\ changes' = <<>>
                   ELSE /\ route' = "manual"
                        /\ changes' = Analysis[text].changes
                        /\ pending' = Substitute(file, Analysis[text].changes)

\* Mutant of Confirm: the answer is read and not looked at
ConfirmIgnoresAnswer(input) ==
    /\ pc = "confirm"
    /\ UNCHANGED <<hVars, hmVars, rmVars, sVars>>
    /\ answer' = <<[typed |-> input, confirm |-> ConfirmAction(input)]>>
    /\ pc' = "backup"
    /\ UNCHANGED <<file, backup, req, route, pending, changes, shown, backedUp, err,
                   pre, preBackup, tWrites, bWrites, tries, nreq>>

\* The user types a line at the confirmation prompt
Confirm(input) ==
    /\ pc = "confirm"
    /\ UNCHANGED <<hVars, hmVars, rmVars, sVars>>
    /\ answer' = <<[typed |-> input, confirm |-> ConfirmAction(input)]>>
    /\ pc' = IF ConfirmAction(input) THEN "backup" ELSE "done"
    /\ UNCHANGED <<file, backup, req, route, pending, changes, shown, backedUp, err,
                   pre, preBackup, tWrites, bWrites, tries, nreq>>

\* PromptUser fails: standard input is closed
ConfirmFails ==
    /\ pc = "confirm"
    /\ UNCHANGED <<hVars, hmVars, rmVars, sVars>>
    /\ err' = MkErr("confirm", "input", 0, 0, "none")
    /\ pc' = "done"
    /\ UNCHANGED <<file, backup, req, route, pending, changes, shown, answer, backedUp,
                   pre, preBackup, tWrites, bWrites, tries, nreq>>

\* Mutant of BackupFile: a backup that exists is kept, not overwritten
BackupFileKeepsFirst(rd, w) ==
    /\ pc = "backup"
    /\ UNCHANGED <<hVars, hmVars, rmVars, sVars>>
    /\ UNCHANGED <<file, req, route, pending, changes, shown, answer,
                   pre, preBackup, tWrites, tries, nreq>>
    /\ IF rd = "fail"
       THEN /\ w = "ok"
            /\ err' = MkErr("backup", "read", 0, 0, "none")
            /\ pc' = "done"
            /\ UNCHANGED <<backup, backedUp, bWrites>>
       ELSE /\ bWrites' = bWrites + 1
            /\ backedUp' = (w = "ok")
            /\ IF w = "fail" \/ backup.exists THEN backup' = backup
               ELSE \E c \in AfterWrite(backup.content, file, w) :
                       backup' = [exists |-> TRUE, content |-> c]
            /\ err' = IF w = "ok" THEN NoErr ELSE MkErr("backup", "write", 0, 0, "none")
            /\ pc' = IF w = "ok" THEN "apply" ELSE "done"

\* Mutant of BackupFile: the error of WriteFile is dropped
BackupFileDropsWriteError(rd, w) ==
    /\ pc = "backup"
    /\ UNCHANGED <<hVars, hmVars, rmVars, sVars>>
    /\ UNCHANGED <<file, req, route, pending, changes, shown, answer,
                   pre, preBackup, tWrites, tries, nreq>>
    /\ IF rd = "fail"
       THEN /\ w = "ok"
            /\ err' = MkErr("backup", "read", 0, 0, "none")
            /\ pc' = "done"
            /\ UNCHANGED <<backup, backedUp, bWrites>>
       ELSE /\ bWrites' = bWrites + 1
            /\ backedUp' = TRUE
            /\ IF w = "fail" THEN backup' = backup
               ELSE \E c \in AfterWrite(backup.content, file, w) :
                       backup' = [exists |-> TRUE, content |-> c]
            /\ err' = NoErr
            /\ pc' = "apply"

BackupFile(rd, w) ==
    /\ pc = "backup"
    /\ UNCHANGED <<hVars, hmVars, rmVars, sVars>>
    /\ UNCHANGED <<file, req, route, pending, changes, shown, answer,
                   pre, preBackup, tWrites, tries, nreq>>
    /\ IF rd = "fail"
       THEN /\ w = "ok"
            /\ err' = MkErr("backup", "read", 0, 0, "none")
            /\ pc' = "done"
            /\ UNCHANGED <<backup, backedUp, bWrites>>
       ELSE /\ bWrites' = bWrites + 1
            /\ backedUp' = (w = "ok")
            /\ IF w = "fail" THEN backup' = backup
               ELSE \E c \in AfterWrite(backup.content, file, w) :
                       backup' = [exists |-> TRUE, content |-> c]
            /\ err' = IF w = "ok" THEN NoErr ELSE MkErr("backup", "write", 0, 0, "none")
            /\ pc' = IF w = "ok" THEN "apply" ELSE "done"

\* ApplyDiff(filePath, diff) on the diff path; a panic of applyHunk ends the
\* process, and no request follows it
ApplyParsed(rd, w) ==
    /\ pc = "apply"
    /\ route = "diff"
    /\ UNCHANGED <<hVars, hmVars, rmVars, sVars>>
    /\ tries' = tries + 1
    /\ UNCHANGED <<backup, req, route, pending, changes, shown, answer, backedUp,
                   pre, preBackup, bWrites, nreq>>
    /\ LET r == ApplyDiff(file, Analysis[req].parsed.Hunks)
       IN  IF rd = "fail"
           THEN /\ w = "ok"
                /\ err' = MkErr("apply", "read", 0, 0, "none")
                /\ pc' = "restore"
                /\ UNCHANGED <<file, tWrites>>
           ELSE IF r.panic
           THEN /\ w = "ok"
                /\ err' = MkErr("panic", "slice", 0, 0, "none")
                /\ pc' = "panic"
                /\ UNCHANGED <<file, tWrites>>
           ELSE IF ~r.ok
           THEN /\ w = "ok"
                /\ err' = MkErr("apply", "hunk", r.start, r.count, "none")
                /\ pc' = "restore"
                /\ UNCHANGED <<file, tWrites>>
           ELSE /\ tWrites' = tWrites + 1
                /\ file' \in AfterWrite(file, r.lines, w)
                /\ err' = IF w = "ok" THEN NoErr ELSE MkErr("apply", "write", 0, 0, "none")
                /\ pc' = IF w = "ok" THEN "done" ELSE "restore"

\* Mutant of ApplyExtracted: a failed write is returned without restoring
ApplyExtractedNoRestore(w) ==
    /\ pc = "apply"
    /\ route \in {"replace", "manual"}
    /\ UNCHANGED <<hVars, hmVars, rmVars, sVars>>
    /\ tries' = tries + 1
    /\ tWrites' = tWrites + 1
    /\ file' \in AfterWrite(file, pending, w)
    /\ err' = IF w = "ok" THEN NoErr ELSE MkErr("apply", "write", 0, 0, "none")
    /\ pc' = "done"
    /\ UNCHANGED <<backup, req, route, pending, changes, shown, answer, backedUp,
                   pre, preBackup, bWrites, nreq>>

\* WriteFile(filePath, ...) on the paths of applyChangesManually
ApplyExtracted(w) ==
    /\ pc = "apply"
    /\ route \in {"replace", "manual"}
    /\ UNCHANGED <<hVars, hmVars, rmVars, sVars>>
    /\ tries' = tries + 1
    /\ tWrites' = tWrites + 1
    /\ file' \in AfterWrite(file, pending, w)
    /\ err' = IF w = "ok" THEN NoErr ELSE MkErr("apply", "write", 0, 0, "none")
    /\ pc' = IF w = "ok" THEN "done" ELSE "restore"
    /\ UNCHANGED <<backup, req, route, pending, changes, shown, answer, backedUp,
                   pre, preBackup, bWrites, nreq>>

\* Mutant of RestoreBackup: the content is written to the backup path again
RestoreBackupWrongPath(rd, w) ==
    /\ pc = "restore"
    /\ UNCHANGED <<hVars, hmVars, rmVars, sVars>>
    /\ pc' = "done"
    /\ UNCHANGED <<backup, req, route, pending, changes, shown, answer, backedUp,
                   pre, preBackup, bWrites, tries, nreq>>
    /\ IF ~backup.exists
       THEN /\ rd = "ok" /\ w = "ok"
            /\ err' = [err EXCEPT !.kind = "apply+restore", !.restore = "missing"]
            /\ UNCHANGED <<file, tWrites>>
       ELSE IF rd = "fail"
       THEN /\ w = "ok"
            /\ err' = [err EXCEPT !.kind = "apply+restore", !.restore = "read"]
            /\ UNCHANGED <<file, tWrites>>
       ELSE /\ UNCHANGED <<file, tWrites>>
            /\ err' = IF w = "ok" THEN [err EXCEPT !.restore = "ok"]
                      ELSE [err EXCEPT !.kind = "apply+restore", !.restore = "write"]

RestoreBackup(rd, w) ==
    /\ pc = "restore"
    /\ UNCHANGED <<hVars, hmVars, rmVars, sVars>>
    /\ pc' = "done"
    /\ UNCHANGED <<backup, req, route, pending, changes, shown, answer, backedUp,
                   pre, preBackup, bWrites, tries, nreq>>
    /\ IF ~backup.exists
       THEN /\ rd = "ok" /\ w = "ok"
            /\ err' = [err EXCEPT !.kind = "apply+restore", !.restore = "missing"]
            /\ UNCHANGED <<file, tWrites>>
       ELSE IF rd = "fail"
       THEN /\ w = "ok"
            /\ err' = [err EXCEPT !.kind = "apply+restore", !.restore = "read"]
            /\ UNCHANGED <<file, tWrites>>
       ELSE /\ tWrites' = tWrites + 1
            /\ file' \in AfterWrite(file, backup.content, w)
            /\ err' = IF w = "ok" THEN [err EXCEPT !.restore = "ok"]
                      ELSE [err EXCEPT !.kind = "apply+restore", !.restore = "write"]

HIdle ==
    /\ hLines = <<>>
    /\ hPatch = <<>>
    /\ hOut = <<>>
    /\ hOp = "none"

WfInit ==
    /\ file \in InitFiles
    /\ backup = NoBackup
    /\ pc = "idle"
    /\ req = <<>>
    /\ route = "none"
    /\ pending = <<>>
    /\ changes = <<>>
    /\ shown = FALSE
    /\ answer = <<>>
    /\ backedUp = FALSE
    /\ err = NoErr
    /\ pre = file
    /\ preBackup = NoBackup
    /\ tWrites = 0
    /\ bWrites = 0
    /\ tries = 0
    /\ nreq = 0

Init == WfInit /\ HIdle /\ HmIdle /\ RmIdle /\ SIdle

Next ==
    \/ \E text \in Requests : ReceiveDiff(text)
    \/ \E text \in Requests, rd \in ReadOutcomes : ReceiveFallback(text, rd)
    \/ \E input \in Answers : Confirm(input)
    \/ ConfirmFails
    \/ \E rd \in ReadOutcomes, w \in WriteOutcomes : BackupFile(rd, w)
    \/ \E rd \in ReadOutcomes, w \in WriteOutcomes : ApplyParsed(rd, w)
    \/ \E w \in WriteOutcomes : ApplyExtracted(w)
    \/ \E rd \in ReadOutcomes, w \in WriteOutcomes : RestoreBackup(rd, w)

Spec == Init /\ [][Next]_vars

----------------------------------------------------------------------------
(* Hunk-level runs: applyHunk and ApplyDiff on every small buffer and patch *)

MaxFileLen == 3

MaxHunkLines == 2

Sym == <<"a", "b", "c", "d", "e", "f", "g", "h", "i">>

\* The buffer of n distinct lines a, b, c, ...
BufferOf(n) == [i \in 1..n |-> <<Sym[i]>>]

\* The example of the specification: [a, b, c, d] and the hunk 2,2 [ b, -c, +x]
ExampleBuffer == BufferOf(4)

ExampleHunk ==
    MkHunk(2, 2, 2, 2, <<MkLine(Context, <<"b">>, 0), MkLine(Deletion, <<"c">>, 0),
                         MkLine(Addition, <<"x">>, 0)>>)

\* The example of the edit prompt: the header -7,1 +7,2 over three context
\* lines and one addition, on a file of nine lines
PromptBuffer == BufferOf(9)

PromptHunk ==
    MkHunk(7, 1, 7, 2, <<MkLine(Context, <<"g">>, 0), MkLine(Context, <<"h">>, 0),
                         MkLine(Addition, <<"x">>, 0), MkLine(Context, <<"i">>, 0)>>)

Buffers == {BufferOf(n) : n \in 1..MaxFileLen} \cup {ExampleBuffer, PromptBuffer}

SeqsUpTo(S, n) == UNION {[1..k -> S] : k \in 0..n}

Consumed(ls) == Cardinality({k \in 1..Len(ls) : ls[k].Type \in {Context, Deletion}})

\* Hunk lines of single-hunk runs: context and deletion text over the live alphabet
WideLines ==
    {MkLine(t, <<Sym[k]>>, 0) : t \in {Context, Deletion}, k \in 1..MaxFileLen}
        \cup {MkLine(Addition, <<"x">>, 0)}

\* Hunk lines of two-hunk runs; the additions of a hunk carry its own text
NarrowLines(added) ==
    {MkLine(Context, <<"a">>, 0), MkLine(Deletion, <<"a">>, 0), MkLine(Addition, <<added>>, 0)}

SingleHunks ==
    {MkHunk(s, c, s, c, ls) :
        s \in 0..(MaxFileLen + 1), c \in (0 - 1)..(MaxHunkLines + 1),
        ls \in SeqsUpTo(WideLines, MaxHunkLines)}
        \cup {ExampleHunk, PromptHunk}

\* Hunks whose header count is the number of their context and deletion lines
CountedHunks(added) ==
    {MkHunk(s, Consumed(ls), s, Consumed(ls), ls) :
        s \in 0..(MaxFileLen + 1), ls \in SeqsUpTo(NarrowLines(added), MaxHunkLines)}

Patches ==
    {<<h>> : h \in SingleHunks}
        \cup {<<h1, h2>> : h1 \in CountedHunks("x"), h2 \in CountedHunks("y")}

HunkInit ==
    /\ file = <<LineA>>
    /\ backup = NoBackup
    /\ pc = "idle"
    /\ req = <<>>
    /\ route = "none"
    /\ pending = <<>>
    /\ changes = <<>>
    /\ shown = FALSE
    /\ answer = <<>>
    /\ backedUp = FALSE
    /\ err = NoErr
    /\ pre = file
    /\ preBackup = NoBackup
    /\ tWrites = 0
    /\ bWrites = 0
    /\ tries = 0
    /\ nreq = 0
    /\ hLines \in Buffers
    /\ hPatch \in Patches
    /\ hOut = <<>>
    /\ hOp = "none"
    /\ HmIdle
    /\ RmIdle
    /\ SIdle

\* applyHunk(lines, hunk) on the first hunk of the patch
RunApplyHunk ==
    /\ hOp = "none"
    /\ Len(hPatch) = 1
    /\ hOut' = <<applyHunk(hLines, hPatch[1])>>
    /\ hOp' = "applyHunk"
    /\ UNCHANGED <<hLines, hPatch>>
    /\ UNCHANGED <<wfVars, hmVars, rmVars, sVars>>

\* ApplyDiff on the whole patch, reads and writes succeeding
RunApplyDiff ==
    /\ hOp = "none"
    /\ hOut' = <<ApplyDiff(hLines, hPatch)>>
    /\ hOp' = "ApplyDiff"
    /\ UNCHANGED <<hLines, hPatch>>
    /\ UNCHANGED <<wfVars, hmVars, rmVars, sVars>>

HunkNext == RunApplyHunk \/ RunApplyDiff

SpecHunk == HunkInit /\ [][HunkNext]_vars

----------------------------------------------------------------------------
(* Properties of the apply workflow (specification Spec) *)

Yes == {<<"y">>, <<"y", "e", "s">>}

Declined == pc = "done" /\ answer # <<>> /\ ~answer[1].confirm

\* C1: on each of the three paths, when the user declines the confirmation the
\* request returns no error, the target holds its pre-call content, and the
\* backup is neither created nor overwritten (nothing is written at all).
C1_DeclineLeavesAllUntouched ==
    Declined =>
        /\ err = NoErr
        /\ file = pre
        /\ backup = preBackup
        /\ tWrites = 0
        /\ bWrites = 0

\* C1 witness: a decline on the manual path, whose substitutions had already
\* changed the buffer in memory.
C1_Witness == Declined /\ route = "manual" /\ pending # pre /\ file = pre

WriteFailedAfterBackup == pc = "done" /\ backedUp /\ err.cause = "write"

\* C2, as claimed: after a successful backup and a failed write of the new
\* content the target holds its pre-call content when the request returns, and
\* the error carries the write failure and the outcome of the restore.
C2_Original ==
    WriteFailedAfterBackup =>
        /\ file = pre
        /\ err.kind \in {"apply", "apply+restore"}
        /\ err.restore # "none"

\* C2, amended: after a successful backup and a failed write of the new content
\* RestoreBackup is attempted; when it succeeds the target holds its pre-call
\* content and the error is the write failure; when it fails the error carries
\* the write failure and the restore error (the target may then be left
\* truncated).
C2_RestoreAfterFailedWrite ==
    WriteFailedAfterBackup =>
        /\ err.restore \in {"ok", "read", "write"}
        /\ err.restore = "ok" => (file = pre /\ err.kind = "apply")
        /\ err.restore # "ok" => err.kind = "apply+restore"

\* C2 witness: the write failed, two writes of the target were attempted (the new
\* content, then the restore) and the restore brought the pre-call content back.
C2_Witness ==
    WriteFailedAfterBackup /\ err.restore = "ok" /\ tWrites = 2 /\ file = pre
        /\ route = "diff"

\* C3: every write of the target comes after BackupFile returned nil in the same
\* request, and at that moment the backup holds the pre-call content of the target.
C3_BackupBeforeWrite ==
    [][tWrites' > tWrites =>
          (backedUp /\ backup.exists /\ backup.content = pre)]_vars

\* C3 witness: the target was written and changed, the backup holds the old content.
C3_Witness ==
    tWrites >= 1 /\ backedUp /\ backup.exists /\ backup.content = pre /\ file # pre

\* C4: every write of the target comes after a preview was shown and after
\* ConfirmAction answered yes to a typed "y" or "yes" in the same request.
C4_PreviewAndYesBeforeWrite ==
    [][tWrites' > tWrites =>
          /\ shown
          /\ answer # <<>>
          /\ answer[1].confirm
          /\ ToLower(TrimSpace(answer[1].typed)) \in Yes]_vars

\* C4 witness: a target written on the replacement path after the answer " Yes".
C4_Witness ==
    /\ tWrites >= 1
    /\ shown
    /\ route = "replace"
    /\ answer # <<>>
    /\ answer[1].typed = <<" ", "Y", "e", "s">>

HunkFailed == route = "diff" /\ err.cause = "hunk" /\ pc \in {"restore", "done"}

\* C9, as claimed: when a hunk of a multi-hunk patch is out of range, the error
\* names the start line of a hunk and the line count of the file, ApplyDiff is
\* called once, and the target ends with its pre-call content.
C9_Original ==
    (HunkFailed /\ Len(Analysis[req].parsed.Hunks) >= 2) =>
        /\ \E k \in 1..Len(Analysis[req].parsed.Hunks) :
              err.start = Analysis[req].parsed.Hunks[k].OldStart
        /\ err.count = Len(pre)
        /\ tries = 1
        /\ pc = "done" => file = pre

NothingSalvaged ==
    /\ route = "manual"
    /\ ~Analysis[req].extracted.ok
    /\ \A k \in 1..Len(changes) : \A i \in 1..Len(pre) :
          TrimSpace(pre[i]) # TrimSpace(changes[k].oldLine)

\* C10, as claimed: when neither the complete-file extraction nor the pairing
\* finds anything, the request fails with an extraction error and neither the
\* target nor the backup is written.
C10_Original ==
    NothingSalvaged =>
        /\ tWrites = 0
        /\ bWrites = 0
        /\ pc = "done" => err.kind = "extraction"

----------------------------------------------------------------------------
(* Properties of applyHunk and ApplyDiff (specification SpecHunk) *)

\* The k-th smallest member of a set of numbers
Nth(S, k) == CHOOSE x \in S : Cardinality({y \in S : y < x}) = k - 1

RECURSIVE ConcatAll(_)
ConcatAll(ss) == IF ss = <<>> THEN <<>> ELSE ss[1] \o ConcatAll(Tail(ss))

\* 1-based position in the old file of the cursor when hunk line i is reached
CursorAt(h, i) == h.OldStart + Consumed(SubSeq(h.Lines, 1, i - 1))

EmittedAt(L, h, i) ==
    IF h.Lines[i].Type = Addition THEN <<h.Lines[i].Content>>
    ELSE IF h.Lines[i].Type = Context /\ CursorAt(h, i) <= Len(L) THEN <<L[CursorAt(h, i)]>>
    ELSE <<>>

HunkOutput(L, h) == ConcatAll([i \in 1..Len(h.Lines) |-> EmittedAt(L, h, i)])

InRange(L, h) == h.OldStart \in 1..Len(L)

Counted(h) == Consumed(h.Lines) = h.OldCount

RanApplyHunk == hOp = "applyHunk" /\ hOut # <<>>

RanApplyDiff == hOp = "ApplyDiff" /\ hOut # <<>>

\* C5: for a hunk in range whose context and deletion lines number OldCount,
\* applyHunk returns the lines before OldStart, then per hunk line the live line
\* at the cursor (context), the text of the hunk (addition) or nothing
\* (deletion), then the lines from OldStart+OldCount on; the example gives
\* [a, b, x, d].  A context line met past the end of the file has no live line
\* and yields nothing.
C5_ApplyHunkShape ==
    RanApplyHunk =>
        /\ (InRange(hLines, hPatch[1]) /\ Counted(hPatch[1])) =>
              /\ hOut[1].ok
              /\ hOut[1].lines =
                    SubSeq(hLines, 1, hPatch[1].OldStart - 1)
                        \o HunkOutput(hLines, hPatch[1])
                        \o SubSeq(hLines, hPatch[1].OldStart + hPatch[1].OldCount,
                                  Len(hLines))
        /\ (hLines = ExampleBuffer /\ hPatch = <<ExampleHunk>>) =>
              hOut[1].lines = << <<"a">>, <<"b">>, <<"x">>, <<"d">> >>

\* C5 witness: the example of the specification has been applied.
C5_Witness ==
    /\ RanApplyHunk
    /\ hLines = ExampleBuffer
    /\ hPatch = <<ExampleHunk>>
    /\ hOut[1].ok
    /\ hOut[1].lines = << <<"a">>, <<"b">>, <<"x">>, <<"d">> >>

StartsAscend(hs) == \A k \in 1..(Len(hs) - 1) : hs[k].OldStart < hs[k + 1].OldStart

StartsDescend(hs) == \A k \in 1..(Len(hs) - 1) : hs[k].OldStart > hs[k + 1].OldStart

NoOverlap(hs) ==
    \A k \in 1..(Len(hs) - 1) : hs[k].OldStart + hs[k].OldCount <= hs[k + 1].OldStart

\* Every hunk put at its stated place of the original file L, in one pass
RECURSIVE InPlace(_, _, _, _)
InPlace(L, hs, k, pos) ==
    IF k > Len(hs) THEN SubSeq(L, pos, Len(L))
    ELSE SubSeq(L, pos, hs[k].OldStart - 1) \o HunkOutput(L, hs[k])
             \o InPlace(L, hs, k + 1, hs[k].OldStart + hs[k].OldCount)

AscendingPatch(L, hs) ==
    /\ \A k \in 1..Len(hs) : InRange(L, hs[k]) /\ Counted(hs[k])
    /\ StartsAscend(hs)
    /\ NoOverlap(hs)

\* C6: ApplyDiff applies the hunks from the last to the first; for hunks at
\* ascending (each start greater than the one before), non-overlapping places of
\* the old file, each with OldCount context and deletion lines, the content
\* written is the original with every hunk put at its stated OldStart.
C6_ReverseOrderKeepsLineNumbers ==
    (RanApplyDiff /\ AscendingPatch(hLines, hPatch)) =>
        /\ hOut[1].ok
        /\ hOut[1].lines = JoinSplit(InPlace(hLines, hPatch, 1, 1))

\* C6 witness: two hunks, the first one adds a line, the second one deletes one.
C6_Witness ==
    /\ RanApplyDiff
    /\ Len(hPatch) = 2
    /\ AscendingPatch(hLines, hPatch)
    /\ \E i \in 1..Len(hPatch[1].Lines) : hPatch[1].Lines[i].Type = Addition
    /\ \E i \in 1..Len(hPatch[2].Lines) : hPatch[2].Lines[i].Type = Deletion
    /\ hOut[1].ok

\* applyHunk, one hunk at a time, the hunk of the highest OldStart first
RECURSIVE BottomUp(_, _)
BottomUp(L, hs) ==
    IF hs = <<>> THEN [ok |-> TRUE, panic |-> FALSE, start |-> 0, count |-> 0, lines |-> L]
    ELSE LET k == CHOOSE k \in 1..Len(hs) :
                      \A j \in 1..Len(hs) : hs[j].OldStart <= hs[k].OldStart
             r == applyHunk(L, hs[k])
         IN  IF r.ok
             THEN BottomUp(r.lines, SubSeq(hs, 1, k - 1) \o SubSeq(hs, k + 1, Len(hs)))
             ELSE r

SameContent(r1, r2) ==
    /\ r1.ok = r2.ok
    /\ r1.ok => JoinSplit(r1.lines) = JoinSplit(r2.lines)

\* C7, as claimed: for hunks listed by descending OldStart, ApplyDiff gives the
\* content that applyHunk gives hunk by hunk from the bottom of the file upward.
C7_Original ==
    (RanApplyDiff /\ StartsDescend(hPatch)) =>
        SameContent(hOut[1], BottomUp(hLines, hPatch))

\* C7, amended: for hunks listed by ascending OldStart, ApplyDiff gives the
\* content (or fails like) applyHunk hunk by hunk from the bottom of the file
\* upward.
C7_AscendingIsBottomUp ==
    (RanApplyDiff /\ StartsAscend(hPatch)) =>
        SameContent(hOut[1], BottomUp(hLines, hPatch))

\* C7 witness: two hunks listed by ascending OldStart, both applied, the first
\* one changing the number of lines.
C7_Witness ==
    /\ RanApplyDiff
    /\ Len(hPatch) = 2
    /\ StartsAscend(hPatch)
    /\ hOut[1].ok
    /\ Len(hPatch[1].Lines) # 2 * Consumed(hPatch[1].Lines)
    /\ hPatch[2].Lines # <<>>
    /\ hOut[1].lines # hLines

OldSide(h) ==
    ConcatAll([i \in 1..Len(h.Lines) |->
                  IF h.Lines[i].Type \in {Context, Deletion}
                  THEN <<h.Lines[i].Content>> ELSE <<>>])

NewSide(h) ==
    ConcatAll([i \in 1..Len(h.Lines) |->
                  IF h.Lines[i].Type \in {Context, Addition}
                  THEN <<h.Lines[i].Content>> ELSE <<>>])

\* A valid hunk against L: in range, a header count that is the number of its
\* context and deletion lines, all of them on lines of L and equal to them
ValidAgainst(L, h) ==
    /\ InRange(L, h)
    /\ Counted(h)
    /\ h.OldStart + h.OldCount - 1 <= Len(L)
    /\ \A i \in 1..Len(h.Lines) :
          h.Lines[i].Type \in {Context, Deletion} => L[CursorAt(h, i)] = h.Lines[i].Content

----------------------------------------------------------------------------
(* Error handling and routing of the apply workflow (specification Spec) *)

IOFailed == pc = "done" /\ err.cause \in {"read", "write"}

Applied == pc = "done" /\ err = NoErr /\ answer # <<>> /\ answer[1].confirm

\* C11, as claimed: every failed read or write ends the request with an error,
\* without a second attempt, and after RestoreBackup was tried.
C11_Original ==
    IOFailed => (err.kind # "nil" /\ tries <= 1 /\ bWrites <= 1 /\ err.restore # "none")

\* C11: every failed read of the target, write of the backup or write of the
\* new content ends the request with an error and is not tried again; the
\* restoration is tried exactly when the failure is in the apply step (after
\* BackupFile succeeded), and a failure before that step leaves the target
\* unwritten.  A request that reports success has written the backup and the
\* target once each, in full.
C11_RestoreOnlyAfterApplyFailure ==
    /\ IOFailed =>
          /\ err.kind # "nil"
          /\ tries <= 1
          /\ bWrites <= 1
          /\ (err.restore # "none") <=> (err.kind \in {"apply", "apply+restore"})
          /\ (err.restore # "none") => backedUp
          /\ err.kind \in {"read", "backup"} => (file = pre /\ tWrites = 0)
    /\ Applied =>
          /\ bWrites = 1
          /\ tWrites = 1
          /\ backup = [exists |-> TRUE, content |-> pre]
          /\ file = IF route = "diff"
                    THEN ApplyDiff(pre, Analysis[req].parsed.Hunks).lines
                    ELSE pending

\* C11 witness: the write of the backup broke off half-way on the replacement
\* path; the request ended with that error and no restoration.
C11_Witness ==
    /\ pc = "done"
    /\ route = "replace"
    /\ err.kind = "backup"
    /\ err.cause = "write"
    /\ err.restore = "none"
    /\ backup.exists
    /\ backup.content # pre

FallbackCase == Analysis[req].unwanted \/ ~Analysis[req].parsed.ok

\* C12: a text the classifier flags, or that ParseDiff rejects, goes to
\* applyChangesManually and the rejection or parse error is never the error of
\* the request (the only error before the preview is a failed read of the
\* target); the classifier decides first: a flagged text goes to the fallback
\* even when it parses.
C12_FallbackNotFailure ==
    (pc # "idle") =>
        /\ FallbackCase <=> (route # "diff")
        /\ err.kind \notin {"classification", "parse"}
        /\ (FallbackCase /\ route = "none") => (pc = "done" /\ err.kind = "read")
        /\ (FallbackCase /\ route # "none") => shown

\* C12 witness: a flagged text that parses was applied by the fallback, and a
\* text that does not parse would be too.
C12_Witness ==
    /\ Applied
    /\ Analysis[req].unwanted
    /\ Analysis[req].parsed.ok
    /\ Len(Analysis[req].parsed.Hunks) = 1
    /\ route = "manual"
    /\ ~Analysis[DiffBadHeader].parsed.ok

Confirmed == answer # <<>> /\ answer[1].confirm

\* C18, as claimed: a confirmed apply leaves in the one backup file the content
\* the target had before it, or, when the apply is not counted because its
\* backup failed, the content the backup held from the apply before.
C18_Original ==
    [][(pc = "backup") => (backup' = [exists |-> TRUE, content |-> file] \/ backup' = backup)]_vars

\* C18: there is one backup file and only BackupFile, after a confirmation,
\* writes it; a BackupFile that succeeds overwrites whatever the backup held
\* with the content the target has just before the apply, and that content
\* stays until the next BackupFile; a BackupFile whose write fails leaves the
\* backup as it was or cut short, and the request ends there.
C18_SingleGenerationBackup ==
    [][/\ (backup' # backup) => (pc = "backup" /\ Confirmed)
       /\ (pc = "backup" /\ pc' = "apply") =>
              (backup' = [exists |-> TRUE, content |-> file] /\ file = pre)
       /\ (pc = "backup" /\ pc' = "done") =>
              \/ backup' = backup
              \/ backup'.exists /\ backup'.content \in Truncated(file)
       /\ backedUp' => (backup' = [exists |-> TRUE, content |-> pre'])]_vars

\* C18 witness: the second request was applied and its backup replaced the
\* backup of the first.
C18_Witness ==
    /\ Applied
    /\ nreq = 2
    /\ preBackup.exists
    /\ preBackup.content # backup.content
    /\ backup.content = pre
    /\ file # pre

----------------------------------------------------------------------------
(* The range check of applyHunk (specification SpecHunk) *)

\* C19, as claimed: applyHunk returns an error and no lines exactly when
\* OldStart - 1 is outside [0, len(lines)), the error naming OldStart and
\* len(lines); for every other hunk it returns lines and no error.
C19_Original ==
    RanApplyHunk =>
        LET r == hOut[1]
            h == hPatch[1]
            outside == h.OldStart - 1 < 0 \/ h.OldStart - 1 >= Len(hLines)
        IN  /\ outside <=> (~r.ok /\ ~r.panic)
            /\ outside => (r.lines = <<>> /\ r.start = h.OldStart /\ r.count = Len(hLines))
            /\ ~outside => (r.ok /\ ~r.panic)

\* C26, as claimed: applyHunk returns an error or lines for every buffer and
\* every hunk; it never indexes or slices the buffer outside its bounds.
C26_Original == RanApplyHunk => ~hOut[1].panic

KeptLines(out) == SelectSeq(out, LAMBDA l : l # <<"x">>)

\* The positions of the buffer that a Deletion of the hunk consumes
DeletedAt(L, h) ==
    {CursorAt(h, i) : i \in {k \in 1..Len(h.Lines) : h.Lines[k].Type = Deletion}}
        \cap (1..Len(L))

Survivors(L, h) ==
    LET keep == {p \in 1..Len(L) : p \notin DeletedAt(L, h)}
    IN  [k \in 1..Cardinality(keep) |-> L[Nth(keep, k)]]

\* C27, as claimed: for a hunk with its start in range, the lines of the
\* output that are not additions are the lines of the buffer that no Deletion
\* consumed, each once and in their order.
C27_Original ==
    (RanApplyHunk /\ InRange(hLines, hPatch[1]) /\ ~hOut[1].panic) =>
        /\ hOut[1].ok
        /\ KeptLines(hOut[1].lines) = Survivors(hLines, hPatch[1])

----------------------------------------------------------------------------
(* Header-level runs: parseRange and parseHunkHeader on every small string *)

MaxRangeLen == 4

RangeChars == {"+", "-", ",", "1", "3", "5", "6", "x"}

\* Every string of at most MaxRangeLen characters: signs, digits, commas, a letter
RangeStrings == UNION {[1..k -> RangeChars] : k \in 0..MaxRangeLen}

HeaderOpen ==
    {<<"@", "@", " ">>,
     <<"@", "@">>,
     <<" ", "@", "@", " ">>}

HeaderOld ==
    {<<"-", "1", ",", "1">>,
     <<"-", "b", "a", "d", "l", "i", "n", "e", ",", "b", "a", "d", "c", "o", "u", "n", "t">>,
     <<"-", "l", "i", "n", "e">>,
     <<"-", "c", "o", "u", "n", "t">>,
     <<"-", "x">>,
     <<"-", "0", ",", "0">>,
     <<"-", "-", "5", ",", "1">>,
     <<"-", "2">>}

HeaderNew ==
    {<<"+", "1", ",", "2">>,
     <<"+", "l", "i", "n", "e", ",", "c", "o", "u", "n", "t">>,
     <<"+", "0", ",", "0">>,
     <<"+", "y", ",", "1">>,
     <<"+", "3">>,
     <<>>}

HeaderClose ==
    {<<" ", "@", "@">>,
     <<"@", "@">>,
     <<" ", "@", "@", " ", "l", "i", "n", "e">>,
     <<" ", "@", "@", " ", "f", "(", ")">>,
     <<>>}

\* Hunk headers: well formed, with placeholder text, with a section heading
Headers ==
    {o \o a \o <<" ">> \o b \o c :
        o \in HeaderOpen, a \in HeaderOld, b \in HeaderNew, c \in HeaderClose}

\* The workflow does not run while a single function is exercised
WfQuiet ==
    /\ file = <<LineA>>
    /\ backup = NoBackup
    /\ pc = "idle"
    /\ req = <<>>
    /\ route = "none"
    /\ pending = <<>>
    /\ changes = <<>>
    /\ shown = FALSE
    /\ answer = <<>>
    /\ backedUp = FALSE
    /\ err = NoErr
    /\ pre = file
    /\ preBackup = NoBackup
    /\ tWrites = 0
    /\ bWrites = 0
    /\ tries = 0
    /\ nreq = 0

HeaderInit ==
    /\ WfQuiet
    /\ HmIdle
    /\ RmIdle
    /\ SIdle
    /\ hLines \in RangeStrings \cup Headers
    /\ hPatch = <<>>
    /\ hOut = <<>>
    /\ hOp = "none"

\* parseRange(rangeStr)
RunParseRange ==
    /\ hOp = "none"
    /\ hOut' = <<parseRange(hLines)>>
    /\ hOp' = "parseRange"
    /\ UNCHANGED <<hLines, hPatch>>
    /\ UNCHANGED <<wfVars, hmVars, rmVars, sVars>>

\* parseHunkHeader(header)
RunParseHunkHeader ==
    /\ hOp = "none"
    /\ hOut' = <<parseHunkHeader(hLines)>>
    /\ hOp' = "parseHunkHeader"
    /\ UNCHANGED <<hLines, hPatch>>
    /\ UNCHANGED <<wfVars, hmVars, rmVars, sVars>>

HeaderNext == RunParseRange \/ RunParseHunkHeader

SpecHeader == HeaderInit /\ [][HeaderNext]_vars

----------------------------------------------------------------------------
(* Properties of parseRange and parseHunkHeader (specification SpecHeader) *)

Unsigned(s) == IF s # <<>> /\ s[1] \in {"+", "-"} THEN Drop(s, 1) ELSE s

RangeOf(s, c) == [ok |-> TRUE, Start |-> s, Count |-> c]

\* C15: parseRange drops one leading sign and splits at the commas; the start
\* is the first field and the count the second, or 1 when there is no comma;
\* it fails exactly when one of the two is not an integer.  "5,6" gives (5,6),
\* "+5" gives (5,1) and "-3,1" gives (3,1).
C15_ParseRange ==
    (hOp = "parseRange") =>
        LET r      == hOut[1]
            fields == Split(Unsigned(hLines), ",")
            start  == Atoi(fields[1])
            count  == IF Len(fields) = 1 THEN [ok |-> TRUE, val |-> 1] ELSE Atoi(fields[2])
        IN  /\ r.ok <=> (start.ok /\ count.ok)
            /\ r.ok => (r.Start = start.val /\ r.Count = count.val)
            /\ (hLines = <<"5", ",", "6">>) => (r = RangeOf(5, 6))
            /\ (hLines = <<"+", "5">>) => (r = RangeOf(5, 1))
            /\ (hLines = <<"-", "3", ",", "1">>) => (r = RangeOf(3, 1))
            /\ (hLines = <<"5", ",", "x">>) => ~r.ok

\* C15 witness: parseRange returned (3,1) for "-3,1".
C15_Witness ==
    /\ hOp = "parseRange"
    /\ hLines = <<"-", "3", ",", "1">>
    /\ hOut[1] = RangeOf(3, 1)

----------------------------------------------------------------------------
(* Text-level runs: containsUnwantedContent, ParseDiff and                  *)
(* extractCompleteFileFromResponse on short texts and on fenced files       *)

MaxTextLines == 2

MaxCodeLines == 2

\* Lines of the short texts: markers in several letter cases, near misses,
\* diff headers and diff lines
TextLines ==
    {<<"d", "e", "f", " ", "f", "o", "o", "(", ")", ":">>,
     <<"x", " ", "D", "E", "F", " ", "y">>,
     <<"I", "m", "p", "o", "r", "t", " ", "o", "s">>,
     <<"W", "i", "t", "h", " ", "O", "p", "e", "n", "(", "f", ")", " ", "a",
        "s", " ", "g">>,
     <<"H", "e", "r", "e", "'", "s", " ", "H", "o", "w">>,
     <<"s", "o", " ", "Y", "o", "u", " ", "C", "a", "n", " ", "U", "s", "e",
        " ", "i", "t">>,
     <<"Y", "O", "U", " ", "C", "O", "U", "L", "D", " ", "G", "E", "N", "E",
        "R", "A", "T", "E">>,
     <<"p", "y", "t", "h", "o", "n">>,
     <<"h", "e", "r", "e", " ", "a", "r", "e", " ", "a", " ", "f", "e", "w">>,
     <<"-", "-", "-", " ", "a">>,
     <<"+", "+", "+", " ", "b">>,
     <<"@", "@", " ", "-", "1", ",", "1", " ", "+", "1", ",", "1", " ", "@",
        "@">>,
     <<"@", "@", " ", "-", "0", ",", "0", " ", "+", "1", ",", "2", " ", "@",
        "@">>,
     <<"@", "@", " ", "-", "1", ",", "1", " ", "+", "0", ",", "0", " ", "@",
        "@">>,
     <<"@", "@", " ", "-", "-", "5", ",", "1", " ", "+", "1", ",", "1", " ",
        "@", "@">>,
     <<"@", "@", " ", "-", "x", " ", "+", "1", " ", "@", "@">>,
     <<"+", "x">>,
     <<"-", "a">>,
     <<" ", "a">>,
     <<>>,
     <<"-", "-">>,
     <<"d", "e", "f", "x">>,
     <<"o", "k">>}

ShortTexts == UNION {[1..k -> TextLines] : k \in 1..MaxTextLines}

PackageMain == <<"p", "a", "c", "k", "a", "g", "e", " ", "m", "a", "i", "n">>

FenceOpens ==
    {<<BQ, BQ, BQ, "g", "o">>,
     <<BQ, BQ, BQ>>,
     <<BQ, BQ, BQ, "g", "o", "l", "a", "n", "g">>}

Preambles == {<<>>, <<<<"S", "u", "r", "e">>>>}

\* Code lines under the package declaration; the second one is indented by a tab
CodeLines ==
    {<<"f", "u", "n", "c", " ", "m", "a", "i", "n", "(", ")", " ", "{", "}">>,
     <<"\t", "x", " ", ":", "=", " ", "1">>,
     <<"v", "a", "r", " ", "x", " ", "i", "n", "t">>}

Codes == SeqsUpTo(CodeLines, MaxCodeLines)

Sentences ==
    {<<"I", "n", " ", "t", "h", "i", "s", " ", "e", "x", "a", "m", "p", "l",
        "e", " ", "m", "a", "i", "n", " ", "i", "s", " ", "e", "m", "p",
        "t", "y">>,
     <<"I", " ", "h", "o", "p", "e", " ", "t", "h", "i", "s", " ", "h", "e",
        "l", "p", "s">>,
     <<"F", "i", "n", "a", "l", "l", "y", ",", " ", "r", "u", "n", " ", "i",
        "t">>}

\* A fenced block that starts with the package declaration, then the sentence
SentenceAfterFence(p, o, code, sent) == p \o <<o, PackageMain>> \o code \o <<Fence, sent>>

\* The sentence comes before the closing fence
SentenceInFence(p, o, code, sent) == p \o <<o, PackageMain>> \o code \o <<sent, Fence>>

FencedTexts ==
    {SentenceAfterFence(p, o, code, sent) :
        p \in Preambles, o \in FenceOpens, code \in Codes, sent \in Sentences}
    \cup
    {SentenceInFence(p, o, code, sent) :
        p \in Preambles, o \in FenceOpens, code \in Codes, sent \in Sentences}

MaxDiffLines == 3

\* Lines of the diff texts: a header, a header that does not parse, the three
\* kinds of hunk line, a blank line, a line without prefix and a file marker
DiffLines ==
    {<<"+", "y">>,
     <<"-", "x">>,
     <<"@", "@", " ", "-", "1", ",", "1", " ", "+", "1", ",", "2", " ", "@",
        "@">>,
     <<"@", "@", " ", "-", "x", " ", "+", "1", " ", "@", "@">>,
     <<"+", "x">>,
     <<"-", "a">>,
     <<" ", "a">>,
     <<" ">>,
     <<"o", "k">>,
     <<"-", "-", "-", " ", "a">>}

DiffTexts == UNION {[1..k -> DiffLines] : k \in 1..MaxDiffLines}

Texts == ShortTexts \cup DiffTexts \cup FencedTexts \cup Requests

TextInit ==
    /\ WfQuiet
    /\ HmIdle
    /\ RmIdle
    /\ SIdle
    /\ hLines \in Texts
    /\ hPatch = <<>>
    /\ hOut = <<>>
    /\ hOp = "none"

\* containsUnwantedContent(content)
RunClassifier ==
    /\ hOp = "none"
    /\ hOut' = <<containsUnwantedContent(hLines)>>
    /\ hOp' = "containsUnwantedContent"
    /\ UNCHANGED <<hLines, hPatch>>
    /\ UNCHANGED <<wfVars, hmVars, rmVars, sVars>>

\* ParseDiff(diffContent)
RunParseDiff ==
    /\ hOp = "none"
    /\ hOut' = <<ParseDiff(hLines)>>
    /\ hOp' = "ParseDiff"
    /\ UNCHANGED <<hLines, hPatch>>
    /\ UNCHANGED <<wfVars, hmVars, rmVars, sVars>>

\* extractCompleteFileFromResponse(content)
RunExtract ==
    /\ hOp = "none"
    /\ hOut' = <<extractCompleteFileFromResponse(hLines)>>
    /\ hOp' = "extractCompleteFileFromResponse"
    /\ UNCHANGED <<hLines, hPatch>>
    /\ UNCHANGED <<wfVars, hmVars, rmVars, sVars>>

\* Live files of the line-by-line fallback: repeated, indented and plain lines
LiveBuffers ==
    {<<<<"a">>>>,
     <<<<"a">>, <<"a">>>>,
     <<<<" ", "a">>, <<"a">>>>,
     <<<<"b">>, <<"\t", "a", " ">>, <<"a">>>>,
     <<<<"x">>, <<"a">>, <<"x">>>>,
     <<<<"b">>, <<"c">>>>}

\* The pairing loop of applyChangesManually
RunExtractChanges ==
    /\ hOp = "none"
    /\ hLines \in DiffTexts \cup Requests
    /\ hOut' = <<ExtractChanges(hLines)>>
    /\ hOp' = "ExtractChanges"
    /\ UNCHANGED <<hLines, hPatch>>
    /\ UNCHANGED <<wfVars, hmVars, rmVars, sVars>>

\* The "apply changes" loop of applyChangesManually on a live file
RunSubstitute ==
    /\ hOp = "none"
    /\ hLines \in DiffTexts \cup Requests
    /\ \E lines \in LiveBuffers :
          /\ hPatch' = lines
          /\ hOut' = <<Substitute(lines, ExtractChanges(hLines))>>
    /\ hOp' = "Substitute"
    /\ UNCHANGED hLines
    /\ UNCHANGED <<wfVars, hmVars, rmVars, sVars>>

TextNext == RunClassifier \/ RunParseDiff \/ RunExtract \/ RunExtractChanges \/ RunSubstitute

SpecText == TextInit /\ [][TextNext]_vars

----------------------------------------------------------------------------
(* Properties of the classifier, the parser and the extractor (SpecText) *)

Classified == hOp = "containsUnwantedContent" /\ hOut # <<>>

\* The text holds the marker m in some letter case
Holds(text, m) == \E i \in 1..Len(text) : Contains(ToLower(text[i]), m)

\* The markers named for the wrong-language and the filler test
NamedMarkers ==
    {<<"d", "e", "f", " ">>,
     <<"i", "m", "p", "o", "r", "t", " ">>,
     <<"w", "i", "t", "h", " ", "o", "p", "e", "n", "(">>,
     <<"h", "e", "r", "e", "'", "s", " ", "h", "o", "w">>,
     <<"y", "o", "u", " ", "c", "a", "n", " ", "u", "s", "e">>,
     <<"y", "o", "u", " ", "c", "o", "u", "l", "d", " ", "g", "e", "n", "e",
        "r", "a", "t", "e">>}

\* All markers of the two tests
OtherMarkers ==
    NamedMarkers \cup
    {<<"p", "y", "t", "h", "o", "n">>,
     <<"h", "e", "r", "e", " ", "a", "r", "e", " ", "a", " ", "f", "e", "w">>}

DiffSyntax == {<<"-", "-", "-">>, <<"+", "+", "+">>, <<"@", "@">>}

\* C13: a text that holds "def ", "import ", "with open(", "here's how",
\* "you can use" or "you could generate" anywhere, in any letter case, is
\* classified as unwanted, whether or not it holds ---, +++ or @@.
C13_MarkerMeansUnwanted ==
    (Classified /\ \E m \in NamedMarkers : Holds(hLines, m)) => (hOut[1] = TRUE)

\* C13 witness: a text with a hunk header and an import line in capitals.
C13_Witness ==
    /\ Classified
    /\ Holds(hLines, <<"@", "@">>)
    /\ \E i \in 1..Len(hLines) : HasPrefix(hLines[i], <<"I", "m", "p", "o", "r", "t", " ">>)
    /\ hOut[1] = TRUE

\* C14: a text without any of ---, +++ and @@ is classified as unwanted; a
\* text with one of them and no marker of the other two tests is not.
C14_DiffSyntaxRequired ==
    Classified =>
        LET diff  == \E m \in DiffSyntax : Holds(hLines, m)
            other == \E m \in OtherMarkers : Holds(hLines, m)
        IN  /\ ~diff => (hOut[1] = TRUE)
            /\ (diff /\ ~other) => (hOut[1] = FALSE)

\* C14 witness: a text whose only diff syntax is a --- line was accepted, and
\* the text of two plain lines would be flagged.
C14_Witness ==
    /\ Classified
    /\ Holds(hLines, <<"-", "-", "-">>)
    /\ ~Holds(hLines, <<"@", "@">>)
    /\ ~Holds(hLines, <<"+", "+", "+">>)
    /\ hOut[1] = FALSE
    /\ containsUnwantedContent(<<<<"o", "k">>, <<"d", "e", "f", "x">>>>)

\* C17, as claimed: for a fenced block that starts with the package
\* declaration and is followed by an explanatory sentence, the extraction
\* returns exactly the lines from the package declaration to the line before
\* the sentence (the closing fence apart).
C17_Original ==
    (hOp = "extractCompleteFileFromResponse" /\ hLines \in FencedTexts) =>
        \A p \in Preambles, o \in FenceOpens, code \in Codes, sent \in Sentences :
            (hLines \in {SentenceAfterFence(p, o, code, sent),
                          SentenceInFence(p, o, code, sent)}) =>
                hOut[1] = [ok |-> TRUE, content |-> <<PackageMain>> \o code]

\* C20, as claimed: every hunk of a patch ParseDiff returns without error has
\* OldStart >= 1 and NewStart >= 1.
C20_Original ==
    (hOp = "ParseDiff" /\ hOut[1].ok) =>
        \A k \in 1..Len(hOut[1].Hunks) :
            hOut[1].Hunks[k].OldStart >= 1 /\ hOut[1].Hunks[k].NewStart >= 1

----------------------------------------------------------------------------
(* Properties of ParseDiff (specification SpecText) *)

Parsed == hOp = "ParseDiff" /\ hOut # <<>>

IsBlank(l) == TrimSpace(l) = <<>>

IsFileMarker(l) == HasPrefix(l, <<"-", "-", "-", " ">>) \/ HasPrefix(l, <<"+", "+", "+", " ">>)

IsHeader(l) == HasPrefix(l, <<"@", "@">>)

HeadersOf(text) == {i \in 1..Len(text) : IsHeader(text[i])}

\* The positions of the lines between the k-th header and the next one (or
\* the end of the text) that are neither blank nor file markers
StoredOf(text, k) ==
    LET hs   == HeadersOf(text)
        from == Nth(hs, k)
        to   == IF k < Cardinality(hs) THEN Nth(hs, k + 1) ELSE Len(text) + 1
    IN  {i \in (from + 1)..(to - 1) : ~IsBlank(text[i]) /\ ~IsFileMarker(text[i])}

\* C21: a patch that ParseDiff returns has one hunk per line beginning with
\* @@, in the order of these lines, each with the ranges of its own header;
\* the lines of a hunk are the lines between its header and the next that are
\* neither blank nor file markers, in source order; nothing else is stored.
C21_HunksInSourceOrder ==
    (Parsed /\ hOut[1].ok) =>
        LET hunks == hOut[1].Hunks
            hs    == HeadersOf(hLines)
        IN  /\ Len(hunks) = Cardinality(hs)
            /\ \A k \in 1..Len(hunks) :
                  LET h  == hunks[k]
                      at == StoredOf(hLines, k)
                  IN  /\ [h EXCEPT !.Lines = <<>>] = parseHunkHeader(hLines[Nth(hs, k)]).hunk
                      /\ Len(h.Lines) = Cardinality(at)
                      /\ \A j \in 1..Len(h.Lines) :
                            /\ h.Lines[j].Number = Nth(at, j)
                            /\ h.Lines[j].Content = Drop(hLines[Nth(at, j)], 1)

\* C21 witness: two hunks were parsed from a text with a file marker, a blank
\* line between the hunks and lines in both.
C21_Witness ==
    /\ Parsed
    /\ hOut[1].ok
    /\ hLines = DiffTwoHunks
    /\ Len(hOut[1].Hunks) = 2
    /\ Len(hOut[1].Hunks[1].Lines) = 2
    /\ hOut[1].Hunks[2].OldStart = 3

\* C22, as claimed: a stored line is an Addition when the source line begins
\* with +, a Deletion when it begins with -, a Context line otherwise, and
\* the prefix character (+, - or a space) put before the stored text gives
\* the source line back.
C22_Original ==
    (Parsed /\ hOut[1].ok) =>
        \A k \in 1..Len(hOut[1].Hunks) :
            \A j \in 1..Len(hOut[1].Hunks[k].Lines) :
                LET l   == hOut[1].Hunks[k].Lines[j]
                    src == hLines[l.Number]
                IN  /\ l.Type = Addition <=> HasPrefix(src, <<"+">>)
                    /\ l.Type = Deletion <=> HasPrefix(src, <<"-">>)
                    /\ l.Type \in {Addition, Deletion, Context}
                    /\ src = <<IF l.Type = Addition THEN "+"
                               ELSE IF l.Type = Deletion THEN "-" ELSE " ">> \o l.Content

BadHeaders(text) == {i \in 1..Len(text) : IsHeader(text[i]) /\ ~parseHunkHeader(text[i]).ok}

\* C23: ParseDiff fails exactly when a line beginning with @@ has a header
\* that does not parse; the error names the 1-based number of the first such
\* line and no patch comes with it.
C23_ErrorNamesFirstBadHeader ==
    Parsed =>
        /\ hOut[1].ok <=> (BadHeaders(hLines) = {})
        /\ ~hOut[1].ok =>
              /\ hOut[1].line = Nth(BadHeaders(hLines), 1)
              /\ hOut[1].Hunks = <<>>
              /\ hOut[1].FilePath = <<>>

\* C23 witness: the header on line 3 is the first that does not parse, after
\* a header that does.
C23_Witness ==
    /\ Parsed
    /\ ~hOut[1].ok
    /\ hOut[1].line = 3
    /\ parseHunkHeader(hLines[1]).ok
    /\ IsHeader(hLines[1])

----------------------------------------------------------------------------
(* Properties of the line-by-line fallback (specification SpecText) *)

MinusAt(text) == {i \in 1..Len(text) : IsMinusLine(TrimSpace(text[i]))}

PlusAt(text) == {i \in 1..Len(text) : IsPlusLine(TrimSpace(text[i]))}

\* C24, as claimed: every change pairs a - line with the first + line that
\* comes after it in the text.
C24_Original ==
    (hOp = "ExtractChanges") =>
        \A k \in 1..Len(hOut[1]) :
            \E i \in MinusAt(hLines) :
                \E j \in PlusAt(hLines) :
                    /\ j > i
                    /\ \A m \in PlusAt(hLines) : m > i => m >= j
                    /\ hOut[1][k].oldLine = Drop(TrimSpace(hLines[i]), 1)
                    /\ hOut[1][k].newLine = Drop(TrimSpace(hLines[j]), 1)

Matches(line, ch) == TrimSpace(line) = TrimSpace(ch.oldLine)

\* C25: the changes leave the number of lines as it is; a line that no change
\* matches keeps its bytes; a line that differs afterwards matched a change
\* and holds the new text of a change; at most one line is replaced per
\* change, and a single change replaces the first line that matches it once
\* both are trimmed, or nothing when no line matches.
C25_OneLinePerChange ==
    (hOp = "Substitute") =>
        LET live  == hPatch
            chs   == ExtractChanges(hLines)
            out   == hOut[1]
            diffs == {i \in 1..Len(live) : out[i] # live[i]}
            hit   == {i \in 1..Len(live) : Matches(live[i], chs[1])}
        IN  /\ Len(out) = Len(live)
            /\ \A i \in 1..Len(live) :
                  (\A k \in 1..Len(chs) : ~Matches(live[i], chs[k])) => (out[i] = live[i])
            /\ \A i \in diffs :
                  /\ \E k \in 1..Len(chs) : Matches(live[i], chs[k])
                  /\ \E k \in 1..Len(chs) : out[i] = chs[k].newLine
            /\ Cardinality(diffs) <= Len(chs)
            /\ (Len(chs) = 1 /\ hit = {}) => (out = live)
            /\ (Len(chs) = 1 /\ hit # {}) =>
                  (out = [live EXCEPT ![Nth(hit, 1)] = chs[1].newLine])

\* C25 witness: the live file holds the old text twice, the first time
\* indented; the one change replaced the first of the two lines only.
C25_Witness ==
    /\ hOp = "Substitute"
    /\ hLines = <<<<"-", "a">>, <<"+", "x">>>>
    /\ hPatch = <<<<" ", "a">>, <<"a">>>>
    /\ hOut[1] = <<<<"x">>, <<"a">>>>

----------------------------------------------------------------------------
(* The history manager (src/history/history.go).  A conversation is its     *)
(* SessionID and its Messages; CreatedAt is set once and never read.  The   *)
(* map Sessions holds pointers: the conversation LoadSession returns is the *)
(* one the map holds, and a change of it is a change of the cache.          *)
MaxMessages == 2

MessagePool ==
    {[Role |-> "user", Content |-> "hi"], [Role |-> "assistant", Content |-> "ok"]}

NewConversation(id) == [SessionID |-> id, Messages |-> <<>>]

\* The conversations a caller hands to SaveSession
ConversationsOf(id) ==
    {[SessionID |-> id, Messages |-> ms] : ms \in SeqsUpTo(MessagePool, 1)}

NoFile == [exists |-> FALSE, data |-> <<>>]

\* What a write that fails half way leaves in the file
TornData == <<"{">>

\* json.MarshalIndent(conversation, "", "  ")
MarshalIndent(conv) == <<"{", conv.Messages, conv.SessionID, "}">>

\* json.Unmarshal(data, &conversation)
Unmarshal(data) ==
    IF Len(data) = 4 /\ data[1] = "{" /\ data[4] = "}"
    THEN [ok |-> TRUE, conv |-> [SessionID |-> data[3], Messages |-> data[2]]]
    ELSE [ok |-> FALSE, conv |-> NewConversation("")]

HmState == [S |-> hmSessions, F |-> hmFiles, W |-> hmWritten]

\* SaveSession(sessionID, conversation): the state after it and whether it
\* returned an error
saveSession(st, id, conv, mk, w) ==
    IF mk = "fail" THEN [st |-> st, err |-> TRUE]
    ELSE IF w = "fail" THEN [st |-> st, err |-> TRUE]
    ELSE IF w = "partial"
    THEN [st |-> [st EXCEPT !.F[id] = [exists |-> TRUE, data |-> TornData]],
          err |-> TRUE]
    ELSE [st |-> [S |-> [st.S EXCEPT ![id] = <<conv>>],
                  F |-> [st.F EXCEPT ![id] = [exists |-> TRUE, data |-> MarshalIndent(conv)]],
                  W |-> [st.W EXCEPT ![id] = <<conv>>]],
          err |-> FALSE]

\* LoadSession(sessionID): the state after it, the conversation it returned
\* and whether it returned an error
loadSession(st, id, rd) ==
    IF st.S[id] # <<>> THEN [st |-> st, conv |-> st.S[id], err |-> FALSE]
    ELSE IF ~st.F[id].exists \/ rd = "fail" THEN [st |-> st, conv |-> <<>>, err |-> TRUE]
    ELSE LET u == Unmarshal(st.F[id].data)
         IN  IF ~u.ok THEN [st |-> st, conv |-> <<>>, err |-> TRUE]
             ELSE [st |-> [st EXCEPT !.S[id] = <<u.conv>>], conv |-> <<u.conv>>,
                   err |-> FALSE]

\* The conversation AddMessage appends to: the loaded one, or a new one
addTarget(st, id, rd) ==
    LET l == loadSession(st, id, rd)
    IN  IF l.err THEN NewConversation(id) ELSE l.conv[1]

\* AddMessage(sessionID, message).  The append writes the Messages field of
\* the conversation LoadSession returned, which is the one in the map.
addMessage(st, id, msg, rd, mk, w) ==
    LET l     == loadSession(st, id, rd)
        conv1 == [addTarget(st, id, rd) EXCEPT !.Messages = Append(@, msg)]
        st1   == IF l.err THEN l.st ELSE [l.st EXCEPT !.S[id] = <<conv1>>]
    IN  saveSession(st1, id, conv1, mk, w)

\* DeleteSession(sessionID)
deleteSession(st, id, rmv) ==
    LET st1 == [st EXCEPT !.S[id] = <<>>]
    IN  IF ~st.F[id].exists THEN [st |-> st1, err |-> FALSE]
        ELSE IF rmv = "fail" THEN [st |-> st1, err |-> TRUE]
        ELSE [st |-> [st1 EXCEPT !.F[id] = NoFile, !.W[id] = <<>>], err |-> FALSE]

HmReturn(name, id, r) ==
    /\ hmSessions' = r.st.S
    /\ hmFiles' = r.st.F
    /\ hmWritten' = r.st.W
    /\ hmPrev' = hmSessions
    /\ hmOp' = [name |-> name, id |-> id, err |-> r.err]
    /\ UNCHANGED <<wfVars, hVars, rmVars, sVars>>

SaveSession(id, conv, mk, w) ==
    HmReturn("SaveSession", id, saveSession(HmState, id, conv, mk, w))

LoadSession(id, rd) ==
    LET l == loadSession(HmState, id, rd)
    IN  HmReturn("LoadSession", id, [st |-> l.st, err |-> l.err])

AddMessage(id, msg, rd, mk, w) ==
    /\ Len(addTarget(HmState, id, rd).Messages) < MaxMessages
    /\ HmReturn("AddMessage", id, addMessage(HmState, id, msg, rd, mk, w))

DeleteSession(id, rmv) ==
    HmReturn("DeleteSession", id, deleteSession(HmState, id, rmv))

\* The session files an earlier run of the program has left
OldFiles(id) ==
    {NoFile} \cup {[exists |-> TRUE, data |-> MarshalIndent(conv)] :
                       conv \in ConversationsOf(id)}

\* NewHistoryManager(historyDir)
HistoryInit ==
    /\ WfQuiet
    /\ HIdle
    /\ RmIdle
    /\ SIdle
    /\ hmSessions = [id \in SessionIDs |-> <<>>]
    /\ hmFiles \in {f \in [SessionIDs -> UNION {OldFiles(id) : id \in SessionIDs}] :
                        \A id \in SessionIDs : f[id] \in OldFiles(id)}
    /\ hmWritten = [id \in SessionIDs |->
                        IF hmFiles[id].exists THEN <<Unmarshal(hmFiles[id].data).conv>>
                        ELSE <<>>]
    /\ hmPrev = hmSessions
    /\ hmOp = NoCall

HistoryNext ==
    \/ \E id \in SessionIDs, mk \in {"ok", "fail"}, w \in WriteOutcomes :
           \E conv \in ConversationsOf(id) : SaveSession(id, conv, mk, w)
    \/ \E id \in SessionIDs, rd \in ReadOutcomes : LoadSession(id, rd)
    \/ \E id \in SessionIDs, msg \in MessagePool, rd \in ReadOutcomes,
          mk \in {"ok", "fail"}, w \in WriteOutcomes : AddMessage(id, msg, rd, mk, w)
    \/ \E id \in SessionIDs, rmv \in {"ok", "fail"} : DeleteSession(id, rmv)

SpecHistory == HistoryInit /\ [][HistoryNext]_vars

----------------------------------------------------------------------------
(* The cache of the history manager (specification SpecHistory) *)

\* C28, as claimed: after every call the conversation cached for a session is
\* the conversation last successfully written to its session file, and an
\* AddMessage whose SaveSession fails leaves the cached conversation without
\* the new message.
C28_Original ==
    /\ \A id \in SessionIDs : hmSessions[id] # <<>> => hmSessions[id] = hmWritten[id]
    /\ (hmOp.name = "AddMessage" /\ hmOp.err) => hmSessions = hmPrev

----------------------------------------------------------------------------
(* The reasoning manager (src/agent/agent.go).  CreatedAt and UpdatedAt are *)
(* written and never read by the manager; they are left out.                *)

\* ReasoningManager.MaxSteps, as NewReasoningManager sets it
MaxSteps == 10

\* UpdateStepResult calls in one run of the model
MaxUpdates == 2

NewReasoning(problem) ==
    [Steps |-> <<>>, CurrentStep |-> 0, IsComplete |-> FALSE, Problem |-> problem,
     Solution |-> ""]

NoSession(id) == <<"no active reasoning session", id>>

\* StartReasoning(sessionID, problem)
startReasoning(active, id, problem) ==
    [active |-> [active EXCEPT ![id] = <<NewReasoning(problem)>>], err |-> <<>>]

\* Mutant of addStep: the limit is tested with >, one step too late
addStepOneMore(active, id, thought, action) ==
    IF active[id] = <<>> THEN [active |-> active, err |-> NoSession(id)]
    ELSE LET reasoning == active[id][1]
         IN  IF Len(reasoning.Steps) > MaxSteps
             THEN [active |-> active, err |-> <<"maximum steps reached", MaxSteps>>]
             ELSE LET step  == [Step |-> Len(reasoning.Steps) + 1, Thought |-> thought,
                                Action |-> action, Result |-> "", Status |-> "pending"]
                      steps == Append(reasoning.Steps, step)
                  IN  [active |-> [active EXCEPT ![id] =
                                      <<[reasoning EXCEPT !.Steps = steps,
                                                          !.CurrentStep = Len(steps)]>>],
                       err |-> <<>>]

\* AddStep(sessionID, thought, action)
addStep(active, id, thought, action) ==
    IF active[id] = <<>> THEN [active |-> active, err |-> NoSession(id)]
    ELSE LET reasoning == active[id][1]
         IN  IF Len(reasoning.Steps) >= MaxSteps
             THEN [active |-> active, err |-> <<"maximum steps reached", MaxSteps>>]
             ELSE LET step  == [Step |-> Len(reasoning.Steps) + 1, Thought |-> thought,
                                Action |-> action, Result |-> "", Status |-> "pending"]
                      steps == Append(reasoning.Steps, step)
                  IN  [active |-> [active EXCEPT ![id] =
                                      <<[reasoning EXCEPT !.Steps = steps,
                                                          !.CurrentStep = Len(steps)]>>],
                       err |-> <<>>]

\* UpdateStepResult(sessionID, result, status)
updateStepResult(active, id, result, status) ==
    IF active[id] = <<>> THEN [active |-> active, err |-> NoSession(id)]
    ELSE LET reasoning == active[id][1]
         IN  IF reasoning.CurrentStep < 1 \/ reasoning.CurrentStep > Len(reasoning.Steps)
             THEN [active |-> active,
                   err |-> <<"invalid current step", reasoning.CurrentStep>>]
             ELSE LET stepIndex == reasoning.CurrentStep
                  IN  [active |-> [active EXCEPT ![id] =
                                      <<[reasoning EXCEPT
                                            !.Steps[stepIndex].Result = result,
                                            !.Steps[stepIndex].Status = status]>>],
                       err |-> <<>>]

\* CompleteReasoning(sessionID, solution)
completeReasoning(active, id, solution) ==
    IF active[id] = <<>> THEN [active |-> active, err |-> NoSession(id)]
    ELSE [active |-> [active EXCEPT ![id] =
                         <<[active[id][1] EXCEPT !.Solution = solution,
                                                 !.IsComplete = TRUE]>>],
          err |-> <<>>]

RmReturn(name, id, r) ==
    /\ rmActive' = r.active
    /\ rmOp' = [name |-> name, id |-> id, err |-> r.err # <<>>]
    /\ UNCHANGED <<wfVars, hVars, hmVars, sVars>>

StartReasoning(id, problem) ==
    /\ RmReturn("StartReasoning", id, startReasoning(rmActive, id, problem))
    /\ UNCHANGED rmUpdates

AddStep(id, thought, action) ==
    /\ RmReturn("AddStep", id, addStep(rmActive, id, thought, action))
    /\ UNCHANGED rmUpdates

UpdateStepResult(id, result, status) ==
    /\ rmUpdates < MaxUpdates
    /\ rmUpdates' = rmUpdates + 1
    /\ RmReturn("UpdateStepResult", id, updateStepResult(rmActive, id, result, status))

CompleteReasoning(id, solution) ==
    /\ RmReturn("CompleteReasoning", id, completeReasoning(rmActive, id, solution))
    /\ UNCHANGED rmUpdates

AgentInit ==
    /\ WfQuiet
    /\ HIdle
    /\ HmIdle
    /\ SIdle
    /\ RmIdle

AgentNext ==
    \/ \E id \in SessionIDs, problem \in {"p"} : StartReasoning(id, problem)
    \/ \E id \in SessionIDs, thought \in {"t"}, action \in {"a"} :
           AddStep(id, thought, action)
    \/ \E id \in SessionIDs, result \in {"r"}, status \in {"completed"} :
           UpdateStepResult(id, result, status)
    \/ \E id \in SessionIDs, solution \in {"sol"} : CompleteReasoning(id, solution)

SpecAgent == AgentInit /\ [][AgentNext]_vars

----------------------------------------------------------------------------
(* The steps of a reasoning session (specification SpecAgent) *)

StepsOf(active, id) == active[id][1].Steps

\* What AddStep was given, as the steps keep it
Given(steps) == [k \in 1..Len(steps) |-> <<steps[k].Thought, steps[k].Action>>]

WellNumbered(active) ==
    \A id \in SessionIDs :
        active[id] # <<>> =>
            /\ Len(StepsOf(active, id)) <= MaxSteps
            /\ \A k \in 1..Len(StepsOf(active, id)) : StepsOf(active, id)[k].Step = k
            /\ active[id][1].CurrentStep = Len(StepsOf(active, id))

Lookups == {"AddStep", "UpdateStepResult", "CompleteReasoning"}

\* One call of the manager, from the state before it to the state after it
CallKeepsOrder ==
    /\ rmOp'.err => rmActive' = rmActive
    /\ (rmOp'.name \in Lookups /\ rmActive[rmOp'.id] = <<>>) => rmOp'.err
    /\ (rmOp'.name = "AddStep" /\ rmActive[rmOp'.id] # <<>>) =>
           LET old == StepsOf(rmActive, rmOp'.id)
               new == StepsOf(rmActive', rmOp'.id)
           IN  IF Len(old) >= MaxSteps THEN rmOp'.err
               ELSE /\ ~rmOp'.err
                    /\ Len(new) = Len(old) + 1
                    /\ SubSeq(new, 1, Len(old)) = old
                    /\ new[Len(new)].Step = Len(new)
    /\ (rmOp'.name \in {"UpdateStepResult", "CompleteReasoning"}
            /\ rmActive[rmOp'.id] # <<>>) =>
           Given(StepsOf(rmActive', rmOp'.id)) = Given(StepsOf(rmActive, rmOp'.id))

\* C29: every session has at most MaxSteps steps, numbered 1..n in the order
\* AddStep inserted them, with CurrentStep = n; AddStep at the limit, and
\* AddStep, UpdateStepResult or CompleteReasoning on a session that was never
\* started, return an error and change nothing.
C29_StepsNumberedAndBounded == [](WellNumbered(rmActive)) /\ [][CallKeepsOrder]_vars

\* AddStep has just been refused on a session that holds MaxSteps steps, the
\* last of them with a result, while the other session was never started
C29_Witness ==
    /\ rmOp = [name |-> "AddStep", id |-> "s1", err |-> TRUE]
    /\ rmActive["s1"] # <<>>
    /\ Len(StepsOf(rmActive, "s1")) = MaxSteps
    /\ StepsOf(rmActive, "s1")[MaxSteps].Status = "completed"
    /\ StepsOf(rmActive, "s1")[1].Status = "pending"
    /\ rmActive["s2"] = <<>>

----------------------------------------------------------------------------
(* The streaming loop and the typing indicator (src/ollama/cilent.go).      *)
(* showTypingIndicator starts a goroutine and returns its stop channel;     *)
(* talkToOllamaStream runs in the caller.  Each action is one step of one   *)
(* of the two: the select of the goroutine and the print after it are two   *)
(* steps, and so are the send, the two prints of the loop.                  *)

\* The number of frames of the loop of the goroutine: for i := 0; i < 50; i++
MaxFrames == 50

\* make(chan bool, 1)
ChanCap == 1

\* Lines of the response body in one run of the model
MaxStreamLines == 3

\* json.Marshal, http.NewRequest, client.Do
StreamRequest(o) ==
    /\ sPc = "request"
    /\ sPc' = IF o = "ok" THEN "scan" ELSE "returned"
    /\ UNCHANGED <<sLines, firstToken, stopSent, tokenShown, stopChan, iPc, iFrame,
                   lateFrame>>
    /\ UNCHANGED <<wfVars, hVars, hmVars, rmVars>>

\* for scanner.Scan() { ... } up to the test of firstToken.  o is what
\* scanner.Scan() and json.Unmarshal make of the next line of the body: the
\* body has ended, the line is empty, it is no JSON, its content is "", its
\* content is a token; done is the field Done of the line
StreamScan(o, done) ==
    /\ sPc = "scan"
    /\ o # "end" => sLines < MaxStreamLines
    /\ sLines' = IF o = "end" THEN sLines ELSE sLines + 1
    /\ sPc' = CASE o = "end" -> "returned"
                [] o \in {"empty", "malformed"} -> "scan"
                [] o = "silent" -> IF done THEN "returned" ELSE "scan"
                [] o = "content" -> IF firstToken THEN "stop" ELSE "token"
    /\ UNCHANGED <<firstToken, stopSent, tokenShown, stopChan, iPc, iFrame, lateFrame>>
    /\ UNCHANGED <<wfVars, hVars, hmVars, rmVars>>

\* select { case stopTyping <- true: default: }
StreamStop ==
    /\ sPc = "stop"
    /\ IF stopChan < ChanCap
       THEN stopChan' = stopChan + 1 /\ stopSent' = TRUE
       ELSE UNCHANGED <<stopChan, stopSent>>
    /\ sPc' = "clear"
    /\ UNCHANGED <<sLines, firstToken, tokenShown, iPc, iFrame, lateFrame>>
    /\ UNCHANGED <<wfVars, hVars, hmVars, rmVars>>

\* fmt.Print("\r AI: "); firstToken = false
StreamClear ==
    /\ sPc = "clear"
    /\ firstToken' = FALSE
    /\ sPc' = "token"
    /\ UNCHANGED <<sLines, stopSent, tokenShown, stopChan, iPc, iFrame, lateFrame>>
    /\ UNCHANGED <<wfVars, hVars, hmVars, rmVars>>

\* time.Sleep(10ms); fmt.Print(content); onContent(content); the test of Done
StreamToken(done) ==
    /\ sPc = "token"
    /\ tokenShown' = TRUE
    /\ sPc' = IF done THEN "returned" ELSE "scan"
    /\ UNCHANGED <<sLines, firstToken, stopSent, stopChan, iPc, iFrame, lateFrame>>
    /\ UNCHANGED <<wfVars, hVars, hmVars, rmVars>>

\* time.Sleep(200ms) at the start of the goroutine
IndicatorDelay ==
    /\ iPc = "delay"
    /\ iPc' = "select"
    /\ UNCHANGED <<sPc, sLines, firstToken, stopSent, tokenShown, stopChan, iFrame,
                   lateFrame>>
    /\ UNCHANGED <<wfVars, hVars, hmVars, rmVars>>

\* i < 50, and select { case <-stopChan: return; default: ... }
IndicatorSelect ==
    /\ iPc = "select"
    /\ IF iFrame >= MaxFrames
       THEN iPc' = "done" /\ UNCHANGED stopChan
       ELSE IF stopChan > 0
       THEN iPc' = "done" /\ stopChan' = stopChan - 1
       ELSE iPc' = "print" /\ UNCHANGED stopChan
    /\ UNCHANGED <<sPc, sLines, firstToken, stopSent, tokenShown, iFrame, lateFrame>>
    /\ UNCHANGED <<wfVars, hVars, hmVars, rmVars>>

\* fmt.Print("\r" + phrase) in the default branch
IndicatorPrint ==
    /\ iPc = "print"
    /\ lateFrame' = (lateFrame \/ (stopSent /\ tokenShown))
    /\ iPc' = "sleep"
    /\ UNCHANGED <<sPc, sLines, firstToken, stopSent, tokenShown, stopChan, iFrame>>
    /\ UNCHANGED <<wfVars, hVars, hmVars, rmVars>>

\* time.Sleep(100ms); i++
IndicatorSleep ==
    /\ iPc = "sleep"
    /\ iFrame' = iFrame + 1
    /\ iPc' = "select"
    /\ UNCHANGED <<sPc, sLines, firstToken, stopSent, tokenShown, stopChan, lateFrame>>
    /\ UNCHANGED <<wfVars, hVars, hmVars, rmVars>>

IndicatorNext == IndicatorDelay \/ IndicatorSelect \/ IndicatorPrint \/ IndicatorSleep

\* stopTyping := showTypingIndicator() has returned, talkToOllamaStream is called
StreamInit ==
    /\ WfQuiet
    /\ HIdle
    /\ HmIdle
    /\ RmIdle
    /\ sPc = "request"
    /\ sLines = 0
    /\ firstToken = TRUE
    /\ stopSent = FALSE
    /\ tokenShown = FALSE
    /\ stopChan = 0
    /\ iPc = "delay"
    /\ iFrame = 0
    /\ lateFrame = FALSE

StreamNext ==
    \/ \E o \in {"ok", "fail"} : StreamRequest(o)
    \/ \E o \in {"end", "empty", "malformed", "silent", "content"}, done \in BOOLEAN :
           StreamScan(o, done)
    \/ StreamStop
    \/ StreamClear
    \/ \E done \in BOOLEAN : StreamToken(done)
    \/ IndicatorDelay
    \/ IndicatorSelect
    \/ IndicatorPrint
    \/ IndicatorSleep

\* The goroutine only sleeps and prints: the scheduler always runs it again
SpecStream == StreamInit /\ [][StreamNext]_vars /\ WF_vars(IndicatorNext)

----------------------------------------------------------------------------
(* The stop of the typing indicator (specification SpecStream) *)

\* C30, as claimed: in every interleaving the stop send never blocks the
\* streaming loop, the goroutine of the indicator terminates, on the stop or
\* after at most 50 frames, and once the loop has sent the stop and printed
\* the first token the indicator prints no further frame.
C30_Original ==
    /\ [](sPc = "stop" => ENABLED StreamStop)
    /\ [](iFrame <= MaxFrames)
    /\ <>(iPc = "done")
    /\ [](~lateFrame)

============================================================================
